---- MODULE Spec2Model ----
(***************************************************************************)
(* State-machine model of the gameplay core of the 3D Ball Adventure game: *)
(* Player (js/player.js), CollectiblesManager, LevelManager (js/level.js), *)
(* ObstaclesManager (js/obstacles.js) and Game (js/game.js).               *)
(*                                                                         *)
(* The game creates no ObstaclesManager obstacle and the level table of    *)
(* the whole-game specification has no level obstacles, so the frame of    *)
(* Game.update leaves the ObstaclesManager out; obstacles are exercised by *)
(* the specifications of the two managers on their own.                    *)
(*                                                                         *)
(* Units.  Time is counted in ticks of 50 ms (TicksPerSecond = 20), so the *)
(* 0.5 s jump cooldown is 10 ticks and the 0.1 s frame-delta cap 2 ticks.  *)
(* Positions are in tenths of a world unit, velocities in whole units per  *)
(* second.  Products with the factors 0.95 and maxSpeed/speed are          *)
(* truncated toward zero onto that grid.                                   *)
(*                                                                         *)
(* The physics backend (world.step, contact events) is external: its       *)
(* effect on the ball is a nondeterministic choice of position, velocity   *)
(* and contact from small sets.  Cosmetic state (particles, trail, colours,*)
(* camera, sounds) is left out except where a claim counts its calls.      *)
(***************************************************************************)
EXTENDS Integers, Sequences, FiniteSets, TLC

VARIABLES
    player,        \* the Player object's fields (js/player.js constructor)
    timers,        \* pending setTimeout callbacks of the event loop
    game,          \* the Game object's flags and score (js/game.js constructor)
    levelManager,  \* LevelManager.currentLevelIndex, isLevelComplete
    collectibles,  \* CollectiblesManager.collectibles, a sequence of records
    obstaclesManager, \* ObstaclesManager: its obstacles and the spike timing
    stage,         \* THREE.Scene children and the PhysicsSystem's world/bridge
    clock,         \* the reading of Date.now(), in ticks
    travel,        \* since loadLevel: simulated time fed to the level's
                   \* obstacles, wall-clock time spent paused (history)
    jumpLog,       \* the ball's support and the time since its last jump (history)
    hist,          \* per-collectible counters since the last loadLevel (history)
    ev             \* what the last operation did (history, reset by each action)

vars == <<player, timers, game, levelManager, collectibles, obstaclesManager,
          stage, clock, travel, jumpLog, hist, ev>>

----------------------------------------------------------------------------
(* Program constants *)

TicksPerSecond == 20
radius == 5                 \* player radius 0.5, in tenths
moveForce == 20
jumpForce == 12
maxSpeed == 10
SpeedBoostNum == 3          \* speedBoostFactor 1.5 = 3/2
SpeedBoostDen == 2
DampNum == 95               \* damping factor 0.95 = 95/100
DampDen == 100
JumpCooldownTicks == 10     \* 0.5 s
DeathPlaneY == -100         \* y < -10, in tenths
DtCapTicks == 2             \* Math.min(deltaTime, 0.1)
JumpPowerDuration == 10     \* seconds, collectible.duration of a jump power
SpeedBoostDuration == 5     \* seconds, collectible.duration of a speed boost
CoinValue == 10
CoinRadius == 5
PowerRadius == 6
CheckpointRadius == 10
CheckpointLift == 10        \* spawn 1 unit above the checkpoint mesh
HoverHeight == 1            \* hover amplitude 0.1, in tenths

(* Bounds of the model *)
MaxCount == 2               \* history counters saturate here ("twice or more")

----------------------------------------------------------------------------
(* Arithmetic helpers *)

Abs(n) == IF n < 0 THEN -n ELSE n
Sgn(n) == IF n < 0 THEN -1 ELSE IF n > 0 THEN 1 ELSE 0
Min(a, b) == IF a < b THEN a ELSE b
Max(a, b) == IF a > b THEN a ELSE b
\* a*num/den truncated toward zero
TruncMul(a, num, den) == Sgn(a) * ((Abs(a) * num) \div den)
Bump(n) == Min(n + 1, MaxCount)

Vec(x, y, z) == [x |-> x, y |-> y, z |-> z]
Zero3 == Vec(0, 0, 0)
\* squared Euclidean distance (THREE.Vector3.distanceTo, compared squared)
Dist2(a, b) == (a.x - b.x) * (a.x - b.x) + (a.y - b.y) * (a.y - b.y)
               + (a.z - b.z) * (a.z - b.z)

\* component v of a horizontal velocity of squared length s2, rescaled by
\* cap/sqrt(s2): the largest grid value whose square does not exceed the
\* exact square of the product
ScaleComp(v, cap, s2) ==
    Sgn(v) * (CHOOSE k \in 0..Abs(v) :
                 /\ k * k * s2 <= v * v * cap * cap
                 /\ (k + 1) * (k + 1) * s2 > v * v * cap * cap)

----------------------------------------------------------------------------
(* Records *)

NoTimer == 0                \* a null timeout handle

\* Player constructor: the fields after `new Player(scene, physics, position)`
NewPlayer(position, cb) ==
    [ position        |-> position,      \* body.position
      meshPosition    |-> position,      \* mesh.position
      velocity        |-> Zero3,         \* body.velocity
      angularVelocity |-> Zero3,         \* body.angularVelocity
      spawnPosition   |-> position,
      canJump         |-> FALSE,
      isJumping       |-> FALSE,
      jumpCooldown    |-> 0,
      moveDirection   |-> [x |-> 0, z |-> 0, den2 |-> 1],
      isMoving        |-> FALSE,
      hasJumpPower    |-> FALSE,
      hasSpeedBoost   |-> FALSE,
      jumpPowerTimeout  |-> NoTimer,
      speedBoostTimeout |-> NoTimer,
      onDeath         |-> cb ]           \* is a death callback registered

\* what the last operation did; every action starts from NoEv
NoEv ==
    [ jumpReq       |-> "none", \* the jump request made: "processInput", "jump"
      keys          |-> <<>>,   \* <<inputState>> of a bare processInput call
      impulses      |-> 0,      \* body.applyImpulse calls
      movement      |-> "none", \* applyMovementForces branch: "force", "damp"
      updated       |-> FALSE,  \* Player.update ran
      granted       |-> "none", \* power-up granted: "jumpPower", "speedBoost"
      cleared       |-> 0,      \* clearTimeout calls on a set handle
      multiplier    |-> <<1, 1>>, \* force and speed-cap multiplier last used
      deaths        |-> 0,      \* Player.die calls
      onDeathCalls  |-> 0,      \* this.onDeath() invocations
      setSpawnCalls |-> 0,      \* Player.setSpawnPoint calls
      coinCb        |-> 0,      \* onCoinCollected invocations
      checkpointCb  |-> 0,      \* onCheckpointActivated invocations
      collectibleCb |-> 0,      \* onCollectible invocations
      effects       |-> 0,      \* createCollectionEffect calls
      touched       |-> {},     \* indices collectItem was called with
      threw         |-> FALSE,  \* the operation ended in a TypeError
      forceCall     |-> <<>>,   \* <<deltaTime>> applyObstacleForces got
      forces        |-> {},     \* forces PhysicsSystem.applyForce applied
      contacts      |-> {},     \* obstacles whose onPlayerContact was called
      removed       |-> {},     \* obstacles removeObstacle / cleanup removed
      finishResult  |-> <<>>,   \* <<value>> a bare checkFinish call returned
      entered       |-> FALSE,  \* checkFinish set isLevelComplete
      fed           |-> <<>>,   \* <<deltaTime>> ObstaclesManager.update got
      call          |-> "none", \* the Game method run: "startGame", ...
      loaded        |-> <<>>,   \* <<levelIndex>> loadLevel was called with
      leap          |-> <<>>,   \* <<what the log held when the impulse came>>
      tick          |-> FALSE,  \* Game.update was called
      rendered      |-> FALSE,  \* Game.render was called
      order         |-> <<>>,   \* the steps of the frame, in the order run
      stepped       |-> <<>>,   \* <<what world.step left>>: the ball's
                                \* position, or the poses of the boxes
      audio         |-> "ok",   \* how the audio system is: see AudioStates
      ui            |-> "ok",   \* how the UI's updates end: see UiStates
      played        |-> 0,      \* sounds started
      ranUpdate     |-> FALSE ] \* Game.update got past the pause check

\* a step of the frame is noted once it has run
did(w, step) == [w EXCEPT !.ev.order = Append(@, step)]

\* the ball's support by a surface, as the physics world has it, and what
\* has happened since the last jump impulse: frame time and upward contacts
NoJumpLog ==
    [ supported |-> FALSE, leapt |-> FALSE, since |-> 0, grounded |-> 0 ]

\* the state as one record, so that handlers compose as functions
World ==
    [ player |-> player, timers |-> timers, game |-> game,
      levelManager |-> levelManager, collectibles |-> collectibles,
      obstaclesManager |-> obstaclesManager, stage |-> stage,
      clock |-> clock, travel |-> travel, jumpLog |-> jumpLog,
      hist |-> hist, ev |-> ev ]

Commit(w) ==
    /\ player' = w.player
    /\ timers' = w.timers
    /\ game' = w.game
    /\ levelManager' = w.levelManager
    /\ collectibles' = w.collectibles
    /\ obstaclesManager' = w.obstaclesManager
    /\ stage' = w.stage
    /\ clock' = w.clock
    /\ travel' = w.travel
    /\ jumpLog' = w.jumpLog
    /\ hist' = w.hist
    /\ ev' = w.ev

----------------------------------------------------------------------------
(* The event loop's timers: setTimeout / clearTimeout *)

\* a timer is [id, kind, rem]: rem ticks remain until it is due
TimerIds(ts) == {t.id : t \in ts}
FreshId(ts) == CHOOSE i \in 1..(Cardinality(ts) + 1) : i \notin TimerIds(ts)
setTimeout(ts, id, kind, seconds) ==
    ts \cup {[id |-> id, kind |-> kind, rem |-> seconds * TicksPerSecond]}
clearTimeout(ts, id) == {t \in ts : t.id # id}

----------------------------------------------------------------------------
(* Game callbacks the player and the collectibles invoke *)

\* Game.onPlayerDeath; the deferred game-over screen and the sound are
\* notifications to the UI/audio collaborators
GameOverDelayTicks == 20        \* setTimeout(..., 1000)
LevelCompleteDelayTicks == 10   \* setTimeout(..., 500)

\* setTimeout(() => uiManager.show...Screen(), delay); the handle is not
\* kept.  The UI's screens are followed where game.screen holds one.
deferScreen(w, kind, ticks) ==
    IF w.game.screen = <<>> THEN w
    ELSE [w EXCEPT !.timers = @ \cup {[id |-> FreshId(@), kind |-> kind,
                                       rem |-> ticks]}]

onPlayerDeath(w) ==
    IF w.game.isGameOver THEN w
    ELSE deferScreen([w EXCEPT !.game.isGameOver = TRUE],
                     "gameOverScreen", GameOverDelayTicks)

\* Game.onCoinCollected
\* the audio system as a notification finds it: working; without an
\* AudioContext (init has replaced playSound by a function that does
\* nothing); with a sound that failed to load (a silent buffer stands in
\* for it); with a context whose calls raise
AudioStates == {"ok", "noContext", "notLoaded", "raises"}
\* the UI's update methods write into their display elements; they raise
\* when an element is missing
UiStates == {"ok", "raises"}

\* AudioManager.playSound, reached through playCoinSound and the like
playSound(w) ==
    CASE w.ev.audio = "noContext" -> w
      [] w.ev.audio = "raises" -> [w EXCEPT !.ev.threw = TRUE]
      [] OTHER -> [w EXCEPT !.ev.played = @ + 1]

\* UIManager.updateScore and updateCoins
updateScoreAndCoins(w) ==
    IF w.ev.ui = "raises" THEN [w EXCEPT !.ev.threw = TRUE] ELSE w

\* Game.onCoinCollected: the score, then the UI, then the sound; an error
\* raised by one of them leaves the callback there
onCoinCollected(w, value) ==
    LET w1 == [w EXCEPT !.game.score = @ + value]
        w2 == updateScoreAndCoins(w1)
    IN  IF w2.ev.threw THEN w2 ELSE playSound(w2)

----------------------------------------------------------------------------
(* Player *)

\* this.isOnJumpPad is read by jump() and assigned nowhere: undefined
isOnJumpPad == FALSE

\* fault injection: removeAllPowerups that leaves the timeouts pending
removeAllPowerupsKeepTimers(w) ==
    [w EXCEPT !.player.hasJumpPower = FALSE,
              !.player.hasSpeedBoost = FALSE,
              !.player.jumpPowerTimeout = NoTimer,
              !.player.speedBoostTimeout = NoTimer]

removeAllPowerups(w) ==
    LET p  == w.player
        w1 == IF p.jumpPowerTimeout # NoTimer
              THEN [w EXCEPT !.timers = clearTimeout(@, p.jumpPowerTimeout),
                             !.ev.cleared = Bump(@)]
              ELSE w
        w2 == IF p.speedBoostTimeout # NoTimer
              THEN [w1 EXCEPT !.timers = clearTimeout(@, p.speedBoostTimeout),
                              !.ev.cleared = Bump(@)]
              ELSE w1
    IN  [w2 EXCEPT !.player.hasJumpPower = FALSE,
                   !.player.hasSpeedBoost = FALSE,
                   !.player.jumpPowerTimeout = NoTimer,
                   !.player.speedBoostTimeout = NoTimer]

\* fault injection: respawn that moves the body but keeps its motion
respawnKeepMotion(w) ==
    removeAllPowerups(
        [w EXCEPT !.player.position = w.player.spawnPosition,
                  !.player.canJump = FALSE,
                  !.player.isJumping = FALSE,
                  !.player.jumpCooldown = JumpCooldownTicks])

respawn(w) ==
    removeAllPowerups(
        [w EXCEPT !.player.position = w.player.spawnPosition,
                  !.player.velocity = Zero3,
                  !.player.angularVelocity = Zero3,
                  !.player.canJump = FALSE,
                  !.player.isJumping = FALSE,
                  !.player.jumpCooldown = JumpCooldownTicks])

setSpawnPoint(w, position) ==
    [w EXCEPT !.player.spawnPosition = position,
              !.ev.setSpawnCalls = Bump(@)]

die(w) ==
    LET w1 == respawn([w EXCEPT !.ev.deaths = Bump(@)])
    IN  IF w1.player.onDeath
        THEN onPlayerDeath([w1 EXCEPT !.ev.onDeathCalls = Bump(@)])
        ELSE w1

checkBounds(w) ==
    IF w.player.meshPosition.y < DeathPlaneY THEN die(w) ELSE w

\* fault injection: jump() without the power-up gate
jumpWithoutPowerGate(w) ==
    IF ~w.player.canJump THEN w
    ELSE [w EXCEPT !.player.velocity.y = @ + jumpForce,
                   !.player.canJump = FALSE,
                   !.player.isJumping = TRUE,
                   !.player.jumpCooldown = JumpCooldownTicks,
                   !.ev.impulses = Bump(@)]

jump(w) ==
    IF ~w.player.canJump THEN w
    ELSE IF ~w.player.hasJumpPower /\ ~isOnJumpPad THEN w
    ELSE [w EXCEPT !.player.velocity.y = @ + jumpForce,
                   !.player.canJump = FALSE,
                   !.player.isJumping = TRUE,
                   !.player.jumpCooldown = JumpCooldownTicks,
                   !.ev.impulses = Bump(@)]

\* the move vector is (x, z)/sqrt(den2): den2 is the squared length the code
\* divides by when both axes are nonzero, and 1 when it does not divide
moveVectorUnnormalised(in) ==    \* fault injection: no diagonal normalisation
    [x |-> (IF in.right THEN 1 ELSE 0) - (IF in.left THEN 1 ELSE 0),
     z |-> (IF in.backward THEN 1 ELSE 0) - (IF in.forward THEN 1 ELSE 0),
     den2 |-> 1]

moveVector(in) ==
    LET z == (IF in.backward THEN 1 ELSE 0) - (IF in.forward THEN 1 ELSE 0)
        x == (IF in.right THEN 1 ELSE 0) - (IF in.left THEN 1 ELSE 0)
    IN  [x |-> x, z |-> z,
         den2 |-> IF x # 0 /\ z # 0 THEN x * x + z * z ELSE 1]

processInput(w, in) ==
    LET md == moveVector(in)
        w1 == [w EXCEPT !.player.moveDirection = md,
                        !.player.isMoving = (md.x # 0 \/ md.z # 0)]
    IN  IF in.jump /\ w1.player.canJump /\ w1.player.jumpCooldown <= 0
        THEN jump(w1) ELSE w1

\* the multiplier of moveForce and of maxSpeed, as a fraction <<num, den>>
speedMultiplier(p) ==
    IF p.hasSpeedBoost THEN <<SpeedBoostNum, SpeedBoostDen>> ELSE <<1, 1>>

applyMovementForces(w, dt) ==
    LET p   == w.player
        v   == p.velocity
        s2  == v.x * v.x + v.z * v.z
        m   == speedMultiplier(p)
        cap == (maxSpeed * m[1]) \div m[2]
    IN  IF p.isMoving
        THEN LET w1 == [w EXCEPT !.ev.movement = "force",
                                 !.ev.multiplier = m]
             IN  IF s2 > cap * cap
                 THEN [w1 EXCEPT !.player.velocity.x = ScaleComp(v.x, cap, s2),
                                 !.player.velocity.z = ScaleComp(v.z, cap, s2)]
                 ELSE w1
        ELSE [w EXCEPT !.player.velocity.x = TruncMul(v.x, DampNum, DampDen),
                       !.player.velocity.z = TruncMul(v.z, DampNum, DampDen),
                       !.ev.movement = "damp"]

\* updatePowerups only rescales the stripes: no expiry is counted down here
updatePowerups(w, dt) == w

\* Player.update
update(w, dt, in) ==
    LET w1 == processInput(w, in)
        w2 == applyMovementForces(w1, dt)
        w3 == checkBounds(w2)
        w4 == IF w3.player.jumpCooldown > 0
              THEN [w3 EXCEPT !.player.jumpCooldown = @ - dt]
              ELSE w3
    IN  updatePowerups([w4 EXCEPT !.ev.updated = TRUE], dt)

giveJumpPower(w, duration) ==
    LET p  == w.player
        w1 == IF p.jumpPowerTimeout # NoTimer
              THEN [w EXCEPT !.timers = clearTimeout(@, p.jumpPowerTimeout),
                             !.ev.cleared = Bump(@)]
              ELSE w
        id == FreshId(w1.timers)
    IN  [w1 EXCEPT !.player.hasJumpPower = TRUE,
                   !.player.jumpPowerTimeout = id,
                   !.timers = setTimeout(@, id, "jumpPower", duration),
                   !.ev.granted = "jumpPower"]

\* fault injection: giveSpeedBoost that does not clear the pending timeout
giveSpeedBoostStacking(w, duration) ==
    LET id == FreshId(w.timers)
    IN  [w EXCEPT !.player.hasSpeedBoost = TRUE,
                  !.player.speedBoostTimeout = id,
                  !.timers = setTimeout(@, id, "speedBoost", duration),
                  !.ev.granted = "speedBoost"]

giveSpeedBoost(w, duration) ==
    LET p  == w.player
        w1 == IF p.speedBoostTimeout # NoTimer
              THEN [w EXCEPT !.timers = clearTimeout(@, p.speedBoostTimeout),
                             !.ev.cleared = Bump(@)]
              ELSE w
        id == FreshId(w1.timers)
    IN  [w1 EXCEPT !.player.hasSpeedBoost = TRUE,
                   !.player.speedBoostTimeout = id,
                   !.timers = setTimeout(@, id, "speedBoost", duration),
                   !.ev.granted = "speedBoost"]

\* the callbacks giveJumpPower / giveSpeedBoost hand to setTimeout
jumpPowerExpired(w) ==
    [w EXCEPT !.player.hasJumpPower = FALSE,
              !.player.jumpPowerTimeout = NoTimer]
speedBoostExpired(w) ==
    [w EXCEPT !.player.hasSpeedBoost = FALSE,
              !.player.speedBoostTimeout = NoTimer]

\* the 'collide' listener of setupContactEvents; up: contact.ni.y > 0.5
onCollide(w, up) ==
    IF up THEN [w EXCEPT !.player.canJump = TRUE, !.player.isJumping = FALSE]
    ELSE w

----------------------------------------------------------------------------
(* Level data (LevelManager.createLevels), abridged: per level a few of    *)
(* its platforms, decorations and collectibles, at the positions the       *)
(* source gives and in source order (coins, power-ups, checkpoints).       *)
(* Levels leaves the obstacles out; ObstacleLevels is the same table with  *)
(* some of each level's obstacles.                                         *)

Item(type, x, y, z) == [type |-> type, position |-> Vec(x, y, z)]

RevolvingBar(x, y, z, speed) ==
    [type |-> "revolvingBar", position |-> Vec(x, y, z), axis |-> "y",
     distance |-> 0, speed |-> speed]
MovingPlatform(x, y, z, axis, distance, speed) ==
    [type |-> "movingPlatform", position |-> Vec(x, y, z), axis |-> axis,
     distance |-> distance, speed |-> speed]

Levels ==
    << [ playerStart  |-> Vec(0, 30, 0),
         platforms    |-> << Item("box", 0, 0, 0), Item("box", 50, 5, 0) >>,
         obstacles    |-> << >>,
         decorations  |-> << Item("tree", -80, 10, -80) >>,
         collectibles |-> << Item("coin", -50, 15, -50),
                             Item("jumpPower", -80, 15, 0),
                             Item("checkpoint", 120, 25, 40) >>,
         finish       |-> [position |-> Vec(120, 25, 140), radius |-> 15] ],
       [ playerStart  |-> Vec(0, 30, 0),
         platforms    |-> << Item("box", 0, 0, 0) >>,
         obstacles    |-> << >>,
         decorations  |-> << Item("rock", -40, 10, -40),
                             Item("crystal", 120, 40, 120) >>,
         collectibles |-> << Item("speedBoost", 100, 35, 120),
                             Item("checkpoint", 120, 25, 120) >>,
         finish       |-> [position |-> Vec(240, 45, -80), radius |-> 15] ] >>

LevelAt(index) == Levels[index + 1]        \* the source indexes from 0

ObstacleLevels ==
    << [ Levels[1] EXCEPT !.obstacles =
             << RevolvingBar(120, 30, 0, 1),
                MovingPlatform(-60, 10, 0, "z", 50, 2) >> ],
       [ Levels[2] EXCEPT !.obstacles =
             << MovingPlatform(0, 5, 60, "z", 30, 2),
                MovingPlatform(180, 50, -80, "x", 20, 3) >> ] >>

----------------------------------------------------------------------------
(* CollectiblesManager *)

\* collectible.mesh.position: the hover of updateAnimation lifts every
\* collectible that is not collected by the same offset
MeshPosition(w, i) ==
    LET c == w.collectibles[i]
    IN  [c.basePosition EXCEPT !.y = @ + c.hover]

\* scene.remove(collectible.mesh): the mesh leaves the scene, and its
\* position is never read again (the offset is dropped from the state)
removeMesh(w, i) ==
    [w EXCEPT !.collectibles[i].inScene = FALSE, !.collectibles[i].hover = 0]

NewCollectible(type, position, rad) ==
    [ type |-> type, basePosition |-> position, hover |-> 0,
      collected |-> FALSE, activated |-> FALSE, radius |-> rad,
      inScene |-> TRUE ]

createCoin(position) == NewCollectible("coin", position, CoinRadius)
createJumpPower(position) == NewCollectible("jump_power", position, PowerRadius)
createSpeedBoost(position) == NewCollectible("speed_boost", position, PowerRadius)
createCheckpoint(position) ==
    NewCollectible("checkpoint", position, CheckpointRadius)

NewHist == [pickups |-> 0, activations |-> 0, spawnSets |-> 0, activatedCb |-> 0]

\* the checkpoint branch of collectItem
\* fault injection: the checkpoint branch without the `activated` test
activateCheckpointAgain(w, i) ==
    LET w1 == [w EXCEPT !.collectibles[i].activated = TRUE,
                        !.hist[i].activations = Bump(@)]
        w2 == setSpawnPoint(w1,
                  [MeshPosition(w1, i) EXCEPT !.y = @ + CheckpointLift])
    IN  [w2 EXCEPT !.hist[i].spawnSets = Bump(@),
                   !.hist[i].activatedCb = Bump(@),
                   !.ev.checkpointCb = Bump(@)]

activateCheckpoint(w, i) ==
    IF ~w.collectibles[i].activated
    THEN LET w1 == [w EXCEPT !.collectibles[i].activated = TRUE,
                             !.hist[i].activations = Bump(@)]
             w2 == setSpawnPoint(w1,
                       [MeshPosition(w1, i) EXCEPT !.y = @ + CheckpointLift])
         IN  [w2 EXCEPT !.hist[i].spawnSets = Bump(@),
                        !.hist[i].activatedCb = Bump(@),
                        !.ev.checkpointCb = Bump(@)]
    ELSE w

collectItem(w, i) ==
    LET c  == w.collectibles[i]
        w1 == [w EXCEPT !.collectibles[i].collected = TRUE,
                        !.hist[i].pickups = Bump(@),
                        !.ev.effects = Bump(@),
                        !.ev.touched = @ \cup {i}]
        paid == onCoinCollected([w1 EXCEPT !.ev.coinCb = Bump(@)], CoinValue)
        w2 == CASE c.type = "coin" ->
                     IF paid.ev.threw THEN paid ELSE removeMesh(paid, i)
                [] c.type = "jump_power" ->
                     removeMesh(giveJumpPower(w1, JumpPowerDuration), i)
                [] c.type = "speed_boost" ->
                     removeMesh(giveSpeedBoost(w1, SpeedBoostDuration), i)
                [] c.type = "checkpoint" ->
                     [activateCheckpoint(w1, i)
                         EXCEPT !.collectibles[i].collected = FALSE]
                [] OTHER -> w1
    IN  IF w2.ev.threw THEN w2 ELSE [w2 EXCEPT !.ev.collectibleCb = Bump(@)]

\* fault injection: the collision loop without the `collected` skip
RECURSIVE checkFromNoSkip(_, _)
checkFromNoSkip(w, i) ==
    IF i > Len(w.collectibles) THEN w
    ELSE LET c == w.collectibles[i]
             reach == c.radius + radius
         IN  IF Dist2(w.player.meshPosition, MeshPosition(w, i)) < reach * reach
             THEN checkFromNoSkip(collectItem(w, i), i + 1)
             ELSE checkFromNoSkip(w, i + 1)

\* fault injection: the collision loop with <= for <
RECURSIVE checkFromInclusive(_, _)
checkFromInclusive(w, i) ==
    IF i > Len(w.collectibles) THEN w
    ELSE LET c == w.collectibles[i]
             reach == c.radius + radius
         IN  IF ~c.collected
                /\ Dist2(w.player.meshPosition, MeshPosition(w, i)) <= reach * reach
             THEN checkFromInclusive(collectItem(w, i), i + 1)
             ELSE checkFromInclusive(w, i + 1)

RECURSIVE checkFrom(_, _)
checkFrom(w, i) ==
    IF i > Len(w.collectibles) \/ w.ev.threw THEN w
    ELSE LET c == w.collectibles[i]
             reach == c.radius + radius
         IN  IF ~c.collected
                /\ Dist2(w.player.meshPosition, MeshPosition(w, i)) < reach * reach
             THEN checkFrom(collectItem(w, i), i + 1)
             ELSE checkFrom(w, i + 1)

checkCollisions(w) == checkFrom(w, 1)

\* h: sin(animationTime * hoverSpeed) * hoverHeight on the position grid
updateAnimation(w, h) ==
    [w EXCEPT !.collectibles = [i \in DOMAIN @ |->
        IF @[i].collected THEN @[i] ELSE [@[i] EXCEPT !.hover = h]]]

\* CollectiblesManager.update
updateCollectibles(w, h) == checkCollisions(updateAnimation(w, h))

\* CollectiblesManager.cleanup
cleanupCollectibles(w) == [w EXCEPT !.collectibles = <<>>, !.hist = <<>>]

\* CollectiblesManager.resetCollectibles (no caller in the repository)
resetCollectibles(w) ==
    [w EXCEPT !.collectibles = [i \in DOMAIN @ |->
        IF @[i].type = "checkpoint" /\ @[i].activated THEN @[i]
        ELSE IF @[i].collected
             THEN [@[i] EXCEPT !.collected = FALSE, !.inScene = TRUE]
             ELSE @[i]]]

getCoinCount(w) ==
    Cardinality({i \in DOMAIN w.collectibles : w.collectibles[i].type = "coin"})
\* fault injection: getCollectedCoins without the `collected` test
getCollectedCoinsAll(w) ==
    Cardinality({i \in DOMAIN w.collectibles : w.collectibles[i].type = "coin"})

getCollectedCoins(w) ==
    Cardinality({i \in DOMAIN w.collectibles :
        w.collectibles[i].type = "coin" /\ w.collectibles[i].collected})

----------------------------------------------------------------------------
(* The scene graph and the PhysicsSystem's world and body-mesh bridge.     *)
(* An object is named by its owner and the owner's field holding it.  An   *)
(* owner created by ObstaclesManager is numbered in creation order; an     *)
(* owner created by LevelManager is the level entry it was built from, so  *)
(* rebuilding a level yields the same names again.                         *)

Owner(kind, level, index) == [kind |-> kind, level |-> level, index |-> index]
Part(owner, name) == [owner |-> owner, part |-> name]

\* made: the number of obstacles ObstaclesManager has constructed so far
\* bodies: the bodies of the cannon world; physicsBodies and meshes: the
\* two lists PhysicsSystem.bodies and PhysicsSystem.meshes; bodyPose and
\* meshPose: position and quaternion of the bodies and meshes whose
\* transforms are followed; environments: <<n>> where the sky and lights
\* are told apart by the build that made them (n builds so far), <<>> where
\* they are not followed
NewStage == [scene |-> {}, bodies |-> {}, physicsBodies |-> <<>>,
             meshes |-> <<>>, bodyPose |-> <<>>, meshPose |-> <<>>,
             constraints |-> {}, made |-> 0, environments |-> <<>>]

sceneAdd(w, nodes) == [w EXCEPT !.stage.scene = @ \cup nodes]
sceneRemove(w, nodes) == [w EXCEPT !.stage.scene = @ \ nodes]
\* world.addBody, as createBoxBody, createSphereBody, createCylinderBody do
addBody(w, bodies) == [w EXCEPT !.stage.bodies = @ \cup bodies]
removeBody(w, bodies) == [w EXCEPT !.stage.bodies = @ \ bodies]
addConstraint(w, cs) == [w EXCEPT !.stage.constraints = @ \cup cs]
removeConstraint(w, cs) == [w EXCEPT !.stage.constraints = @ \ cs]
addBodyMeshPair(w, body, mesh) ==
    [w EXCEPT !.stage.physicsBodies = Append(@, body),
              !.stage.meshes = Append(@, mesh)]
\* Array.indexOf: the first index holding x (counted from 1), 0 if none
indexOf(list, x) ==
    LET found == {i \in DOMAIN list : list[i] = x}
    IN  IF found = {} THEN 0
        ELSE CHOOSE i \in found : \A j \in found : i <= j
\* Array.splice(index, 1); past the end it removes nothing
splice(list, index) ==
    [i \in 1..(Len(list) - (IF index \in DOMAIN list THEN 1 ELSE 0)) |->
        IF i < index THEN list[i] ELSE list[i + 1]]
\* fault injection: the lists are spliced without the test for -1;
\* splice(-1, 1) removes the last entry
removeBodyMeshPairUnchecked(w, body, mesh) ==
    LET bodyIndex == indexOf(w.stage.physicsBodies, body)
        at == IF bodyIndex = 0 THEN Len(w.stage.physicsBodies) ELSE bodyIndex
    IN  removeBody([w EXCEPT !.stage.physicsBodies = splice(@, at),
                             !.stage.meshes = splice(@, at)], {body})
\* indexOf(body) finds the first entry with this body and both lists are
\* spliced there; the mesh argument is not read.  world.removeBody of a
\* body that is not in the world does nothing.
removeBodyMeshPair(w, body, mesh) ==
    LET bodyIndex == indexOf(w.stage.physicsBodies, body)
        w1 == IF bodyIndex = 0 THEN w
              ELSE [w EXCEPT !.stage.physicsBodies = splice(@, bodyIndex),
                             !.stage.meshes = splice(@, bodyIndex)]
    IN  removeBody(w1, {body})
\* the registered pairs, without their order
PairSet(st) ==
    {<<st.physicsBodies[i], st.meshes[i]>> :
        i \in DOMAIN st.physicsBodies \cap DOMAIN st.meshes}
\* fault injection: a synchronization that copies the meshes' transforms
\* into the bodies
RECURSIVE syncBodiesFrom(_, _)
syncBodiesFrom(st, i) ==
    IF i > Len(st.physicsBodies) THEN st
    ELSE syncBodiesFrom(
             IF i \in DOMAIN st.meshes
             THEN [st EXCEPT !.bodyPose[st.physicsBodies[i]] =
                                 st.meshPose[st.meshes[i]]]
             ELSE st, i + 1)
\* the loop of PhysicsSystem.update from entry i on: mesh.position and
\* mesh.quaternion take the body's
RECURSIVE syncFrom(_, _)
syncFrom(st, i) ==
    IF i > Len(st.physicsBodies) THEN st
    ELSE syncFrom(
             IF i \in DOMAIN st.meshes
             THEN [st EXCEPT !.meshPose[st.meshes[i]] =
                                 st.bodyPose[st.physicsBodies[i]]]
             ELSE st, i + 1)
\* PhysicsSystem.update: world.step leaves the bodies of the world at the
\* poses stepped, then the meshes follow
physicsSystemUpdate(w, stepped) ==
    LET st == [w.stage EXCEPT !.bodyPose =
                  [b \in DOMAIN @ |->
                      IF b \in w.stage.bodies THEN stepped[b] ELSE @[b]]]
    IN  [w EXCEPT !.stage = syncFrom(st, 1), !.ev.stepped = <<st.bodyPose>>]
\* PhysicsSystem.cleanup
physicsCleanup(w) ==
    [w EXCEPT !.stage.bodies =
                  @ \ {w.stage.physicsBodies[i] :
                           i \in DOMAIN w.stage.physicsBodies},
              !.stage.physicsBodies = <<>>,
              !.stage.meshes = <<>>]

----------------------------------------------------------------------------
(* ObstaclesManager (js/obstacles.js).  Nothing in the repository sets     *)
(* markedForDeletion, so update's deletion branch never runs; the warning  *)
(* pulse of a spike trap and the vortex's particle animation are cosmetic. *)

SpikeHiddenTicks == 40          \* timeToNextSpikeToggle = 2.0
SpikeArmedTicks == 20           \* this.spikesActive ? 1.0 : 2.0
DisappearDelayTicks == 10       \* disappearDelay: 0.5, declared, never read
DisappearDurationTicks == 40    \* disappearDuration: 2.0
RespawnDurationTicks == 60      \* respawnDuration: 3.0
PlatformWidth == 20             \* size.width = 2
PlatformHeight == 5             \* size.height = 0.5
PlatformDepth == 20             \* size.depth = 2
ContactSlack == 1               \* the 0.1 of the contact test
VortexRadius == 30              \* radius = 3
VortexStrength == 10            \* strength = 10

NewObstaclesManager ==
    [obstacles |-> <<>>, spikesActive |-> FALSE,
     timeToNextSpikeToggle |-> SpikeHiddenTicks]

\* one record shape for the four obstacle objects; a field an object does
\* not have keeps its default.  visible is mesh.visible (spikesMesh.visible
\* of a spike trap), collisionResponse is body.collisionResponse
\* (spikeBody.collisionResponse of a spike trap).  opacity is in
\* DisappearDurationTicks-ths, meshDrop in (2 * DisappearDurationTicks)-ths.
NewObstacle(type, owner, position) ==
    [ type |-> type, owner |-> owner, position |-> position,
      isActive |-> FALSE,
      isDisappearing |-> FALSE, isDisappeared |-> FALSE,
      disappearTimer |-> 0, respawnTimer |-> 0,
      visible |-> TRUE, collisionResponse |-> TRUE,
      opacity |-> DisappearDurationTicks, meshDrop |-> 0,
      radius |-> 0, strength |-> 0 ]

NextOwner(w, type) == Owner(type, -1, w.stage.made + 1)
pushObstacle(w, o) ==
    [w EXCEPT !.obstaclesManager.obstacles = Append(@, o),
              !.stage.made = @ + 1]

createSpikeTrap(w, position) ==
    LET me == NextOwner(w, "spikeTrap")
        w1 == sceneAdd(w, {Part(me, "baseMesh"), Part(me, "spikesMesh")})
        w2 == addBody(w1, {Part(me, "baseBody"), Part(me, "spikeBody")})
        w3 == pushObstacle(w2, [NewObstacle("spikeTrap", me, position)
                  EXCEPT !.visible = FALSE, !.collisionResponse = FALSE])
    IN  addBodyMeshPair(w3, Part(me, "baseBody"), Part(me, "baseMesh"))

createPendulum(w, position) ==
    LET me == NextOwner(w, "pendulum")
        w1 == sceneAdd(w, {Part(me, "anchorMesh"), Part(me, "chainGroup"),
                           Part(me, "ballMesh")})
        w2 == addBody(w1, {Part(me, "ballBody")})
        w3 == addConstraint(w2, {Part(me, "constraint")})
        w4 == pushObstacle(w3, NewObstacle("pendulum", me, position))
    IN  addBodyMeshPair(w4, Part(me, "ballBody"), Part(me, "ballMesh"))

createDisappearingPlatform(w, position) ==
    LET me == NextOwner(w, "disappearingPlatform")
        w1 == sceneAdd(w, {Part(me, "mesh")})
        w2 == addBody(w1, {Part(me, "body")})
        w3 == pushObstacle(w2,
                  NewObstacle("disappearingPlatform", me, position))
    IN  addBodyMeshPair(w3, Part(me, "body"), Part(me, "mesh"))

createVortex(w, position) ==
    LET me == NextOwner(w, "vortex")
        w1 == sceneAdd(w, {Part(me, "mesh"), Part(me, "particles")})
    IN  pushObstacle(w1, [NewObstacle("vortex", me, position)
            EXCEPT !.radius = VortexRadius, !.strength = VortexStrength])

\* spikeTrap.setActive
setActive(o, active) ==
    [o EXCEPT !.isActive = active, !.visible = active,
              !.collisionResponse = active]

\* fault injection: a contact that starts the fade whatever the state
onPlayerContactAlways(o) ==
    [o EXCEPT !.isDisappearing = TRUE, !.disappearTimer = 0]

\* disappearingPlatform.onPlayerContact
onPlayerContact(o) ==
    IF ~o.isDisappearing /\ ~o.isDisappeared
    THEN [o EXCEPT !.isDisappearing = TRUE, !.disappearTimer = 0]
    ELSE o

\* disappearingPlatform.update
platformUpdate(o, deltaTime) ==
    IF o.isDisappearing /\ ~o.isDisappeared
    THEN LET t == o.disappearTimer + deltaTime
         IN  IF t >= DisappearDurationTicks
             THEN [o EXCEPT !.disappearTimer = 0,
                            !.isDisappeared = TRUE,
                            !.isDisappearing = FALSE,
                            !.visible = FALSE,
                            !.collisionResponse = FALSE,
                            !.respawnTimer = 0]
             ELSE [o EXCEPT !.disappearTimer = t,
                            !.opacity = DisappearDurationTicks - t,
                            !.meshDrop = t]
    ELSE IF o.isDisappeared
    THEN LET t == o.respawnTimer + deltaTime
         IN  IF t >= RespawnDurationTicks
             THEN [o EXCEPT !.respawnTimer = t,
                            !.isDisappeared = FALSE,
                            !.visible = TRUE,
                            !.opacity = DisappearDurationTicks,
                            !.meshDrop = 0,
                            !.collisionResponse = TRUE]
             ELSE [o EXCEPT !.respawnTimer = t]
    ELSE o

\* obstacle.update(deltaTime): empty for a spike trap, cosmetic for a
\* pendulum and a vortex
obstacleUpdate(o, deltaTime) ==
    IF o.type = "disappearingPlatform" THEN platformUpdate(o, deltaTime) ELSE o

\* fault injection: spike timing that stops after its first toggle
spikeTimingOnce(om, deltaTime) ==
    IF om.timeToNextSpikeToggle > 0 /\ ~om.spikesActive
    THEN LET t == om.timeToNextSpikeToggle - deltaTime
         IN  IF t <= 0
             THEN [om EXCEPT !.spikesActive = TRUE,
                      !.timeToNextSpikeToggle = SpikeArmedTicks,
                      !.obstacles = [i \in DOMAIN @ |->
                          IF @[i].type = "spikeTrap"
                          THEN setActive(@[i], TRUE) ELSE @[i]]]
             ELSE [om EXCEPT !.timeToNextSpikeToggle = t]
    ELSE om

\* the spike timing of ObstaclesManager.update
spikeTiming(om, deltaTime) ==
    IF om.timeToNextSpikeToggle > 0
    THEN LET t == om.timeToNextSpikeToggle - deltaTime
             active == ~om.spikesActive
         IN  IF t <= 0
             THEN [om EXCEPT !.spikesActive = active,
                      !.timeToNextSpikeToggle =
                          IF active THEN SpikeArmedTicks ELSE SpikeHiddenTicks,
                      !.obstacles = [i \in DOMAIN @ |->
                          IF @[i].type = "spikeTrap"
                          THEN setActive(@[i], active) ELSE @[i]]]
             ELSE [om EXCEPT !.timeToNextSpikeToggle = t]
    ELSE om

\* ObstaclesManager.update
updateObstaclesManager(w, deltaTime) ==
    LET w1 == [w EXCEPT !.obstaclesManager.obstacles =
                   [i \in DOMAIN @ |-> obstacleUpdate(@[i], deltaTime)]]
    IN  [w1 EXCEPT !.obstaclesManager = spikeTiming(@, deltaTime)]

\* is the ball resting on the platform (the box test of applyObstacleForces;
\* heights doubled to keep height / 2 whole)
OnPlatform(o, pos) ==
    /\ 2 * Abs(pos.x - o.position.x) < PlatformWidth
    /\ 2 * Abs(pos.z - o.position.z) < PlatformDepth
    /\ LET meshY2 == 2 * o.position.y
                     - (10 * o.meshDrop) \div DisappearDurationTicks
       IN  Abs(2 * pos.y - (meshY2 + PlatformHeight + 2 * radius))
               < 2 * ContactSlack

WithinVortex(o, pos) ==
    LET dx == o.position.x - pos.x
        dz == o.position.z - pos.z
    IN  dx * dx + dz * dz < o.radius * o.radius

\* vortex.applyForceToPlayer: `this` is the vortex object, which has no
\* physics field, so this.physics.applyForce raises a TypeError and no
\* force reaches the body
applyForceToPlayer(w, i, deltaTime) ==
    IF WithinVortex(w.obstaclesManager.obstacles[i], w.player.meshPosition)
    THEN [w EXCEPT !.ev.threw = TRUE]
    ELSE w

\* the loop of applyObstacleForces from obstacle i on; an exception ends it
RECURSIVE forcesFrom(_, _, _)
forcesFrom(w, i, deltaTime) ==
    IF i > Len(w.obstaclesManager.obstacles) \/ w.ev.threw THEN w
    ELSE LET o == w.obstaclesManager.obstacles[i]
             w1 == IF o.type = "vortex"
                   THEN applyForceToPlayer(w, i, deltaTime) ELSE w
             w2 == IF ~w1.ev.threw /\ o.type = "disappearingPlatform"
                      /\ OnPlatform(o, w1.player.meshPosition)
                   THEN [w1 EXCEPT !.obstaclesManager.obstacles[i] =
                                       onPlayerContact(@),
                                   !.ev.contacts = @ \cup {i}]
                   ELSE w1
         IN  forcesFrom(w2, i + 1, deltaTime)

applyObstacleForces(w, deltaTime) ==
    forcesFrom([w EXCEPT !.ev.forceCall = <<deltaTime>>], 1, deltaTime)

ObstacleMeshes(o) ==
    {Part(o.owner, n) : n \in {"mesh", "chainGroup", "anchorMesh", "ballMesh",
                               "baseMesh", "spikesMesh", "particles"}}
ObstacleBodies(o) ==
    {Part(o.owner, n) : n \in {"body", "ballBody", "baseBody", "spikeBody"}}

removeObstacle(w, o) ==
    LET w1 == sceneRemove(w, ObstacleMeshes(o))
        w2 == removeBody(w1, ObstacleBodies(o))
    IN  removeConstraint(w2, {Part(o.owner, "constraint")})

RECURSIVE removeFrom(_, _)
removeFrom(w, i) ==
    IF i > Len(w.obstaclesManager.obstacles) THEN w
    ELSE removeFrom(removeObstacle(w, w.obstaclesManager.obstacles[i]), i + 1)

\* ObstaclesManager.cleanup
cleanupObstacles(w) ==
    [removeFrom(w, 1) EXCEPT !.obstaclesManager.obstacles = <<>>]

----------------------------------------------------------------------------
(* LevelManager *)

\* the constructor's fields; finishArea is <<>> until createFinishArea runs
NewLevelManager ==
    [ levels |-> Levels,
      currentLevelIndex |-> 0, isLevelComplete |-> FALSE,
      startTime |-> 0, completionTime |-> 0,
      platforms |-> <<>>, obstacles |-> <<>>, decorations |-> <<>>,
      finishArea |-> <<>> ]

\* no simulated time fed to the level's obstacles yet, no time spent paused
NoTravel == [time |-> 0, deltas |-> {}, paused |-> 0]

createCollectible(data) ==
    CASE data.type = "coin" -> createCoin(data.position)
      [] data.type = "jumpPower" -> createJumpPower(data.position)
      [] data.type = "speedBoost" -> createSpeedBoost(data.position)
      [] data.type = "checkpoint" -> createCheckpoint(data.position)

\* createPlatform for entry k of the level being built ('box', 'cylinder')
createPlatform(w, k) ==
    LET me == Owner("platform", w.levelManager.currentLevelIndex, k)
        w1 == addBody(w, {Part(me, "body")})
        w2 == sceneAdd(w1, {Part(me, "mesh")})
        w3 == [w2 EXCEPT !.levelManager.platforms = Append(@, me)]
    IN  addBodyMeshPair(w3, Part(me, "body"), Part(me, "mesh"))

\* the obstacle object createObstacle stores; bodyPosition is body.position,
\* anchor the other body of a revolving bar's point constraint (<<>>: none)
NewLevelObstacle(me, data, anchor) ==
    [ type |-> data.type, owner |-> me, anchor |-> anchor,
      startPos |-> data.position, bodyPosition |-> data.position,
      axis |-> data.axis, distance |-> data.distance, speed |-> data.speed,
      direction |-> 1, progress |-> 0, angularVelocity |-> 0 ]

\* createObstacle for entry k of the level being built
createObstacle(w, k, data) ==
    LET me == Owner("obstacle", w.levelManager.currentLevelIndex, k)
        w1 == addBody(w, {Part(me, "body")})
        \* this.physics.bodies[0]: undefined while no pair is registered
        anchor == IF data.type = "revolvingBar"
                     /\ w1.stage.physicsBodies # <<>>
                  THEN <<w1.stage.physicsBodies[1]>> ELSE <<>>
        w2 == IF data.type = "revolvingBar"
              THEN addConstraint(w1, {Part(me, "constraint")}) ELSE w1
        w3 == sceneAdd(w2, {Part(me, "mesh")})
        w4 == [w3 EXCEPT !.levelManager.obstacles =
                             Append(@, NewLevelObstacle(me, data, anchor))]
    IN  addBodyMeshPair(w4, Part(me, "body"), Part(me, "mesh"))

\* createFinishArea: the marker and, as decorations, its particles
createFinishArea(w) ==
    LET me == Owner("finish", w.levelManager.currentLevelIndex, 0)
        particles == Owner("finishParticle", w.levelManager.currentLevelIndex, 0)
        w1 == sceneAdd(w, {Part(me, "mesh"), Part(particles, "mesh")})
    IN  [w1 EXCEPT !.levelManager.decorations = Append(@, particles),
                   !.levelManager.finishArea = <<me>>]

createDecoration(w, k) ==
    LET me == Owner("decoration", w.levelManager.currentLevelIndex, k)
    IN  [sceneAdd(w, {Part(me, "mesh")})
            EXCEPT !.levelManager.decorations = Append(@, me)]

EnvironmentParts(me) ==
    {Part(me, "sky"), Part(me, "sunLight"), Part(me, "ambientLight")}

\* fault injection: one sky and one pair of lights, shared by every build
createEnvironmentOnce(w) ==
    sceneAdd(w, EnvironmentParts(Owner("environment", -1, 1)))

\* createEnvironment: a new sky mesh and two new lights on every build,
\* removed by none
createEnvironment(w) ==
    LET built == w.stage.environments
        n == IF built = <<>> THEN 0 ELSE built[1] + 1
        w1 == sceneAdd(w, EnvironmentParts(Owner("environment", -1, n)))
    IN  [w1 EXCEPT !.stage.environments = IF built = <<>> THEN <<>> ELSE <<n>>]

RECURSIVE platformsFrom(_, _, _)
platformsFrom(w, level, k) ==
    IF k > Len(level.platforms) THEN w
    ELSE platformsFrom(createPlatform(w, k), level, k + 1)

RECURSIVE obstaclesFrom(_, _, _)
obstaclesFrom(w, level, k) ==
    IF k > Len(level.obstacles) THEN w
    ELSE obstaclesFrom(createObstacle(w, k, level.obstacles[k]), level, k + 1)

RECURSIVE decorationsFrom(_, _, _)
decorationsFrom(w, level, k) ==
    IF k > Len(level.decorations) THEN w
    ELSE decorationsFrom(createDecoration(w, k), level, k + 1)

RECURSIVE clearPairs(_, _)
clearPairs(w, owners) ==
    IF owners = <<>> THEN w
    ELSE LET me == Head(owners)
             w1 == sceneRemove(w, {Part(me, "mesh")})
         IN  clearPairs(removeBodyMeshPair(w1, Part(me, "body"),
                                           Part(me, "mesh")), Tail(owners))

clearLevel(w) ==
    LET lm == w.levelManager
        w1 == clearPairs(w, lm.platforms)
        w2 == clearPairs(w1, [i \in DOMAIN lm.obstacles |-> lm.obstacles[i].owner])
        w3 == sceneRemove(w2, {Part(lm.decorations[i], "mesh") :
                                  i \in DOMAIN lm.decorations})
        w4 == sceneRemove(w3, {Part(lm.finishArea[i], "mesh") :
                                  i \in DOMAIN lm.finishArea})
    IN  cleanupCollectibles([w4 EXCEPT !.levelManager.platforms = <<>>,
                                       !.levelManager.obstacles = <<>>,
                                       !.levelManager.decorations = <<>>])

buildLevel(w, level) ==
    LET w1 == platformsFrom(w, level, 1)
        w2 == obstaclesFrom(w1, level, 1)
        w3 == [w2 EXCEPT !.collectibles = [i \in DOMAIN level.collectibles |->
                                   createCollectible(level.collectibles[i])],
                         !.hist = [i \in DOMAIN level.collectibles |-> NewHist]]
        w4 == createFinishArea(w3)
        w5 == decorationsFrom(w4, level, 1)
    IN  createEnvironment(w5)

\* loadLevel returns LevelAt(levelIndex).playerStart
loadLevel(w, levelIndex) ==
    LET w1 == clearLevel(w)
        w2 == [w1 EXCEPT !.levelManager.currentLevelIndex = levelIndex,
                         !.levelManager.isLevelComplete = FALSE,
                         !.levelManager.startTime = w.clock,
                         !.travel = NoTravel,
                         !.ev.loaded = <<levelIndex>>]
    IN  buildLevel(w2, w2.levelManager.levels[levelIndex + 1])

\* fault injection: after the last level comes the first one again
getNextLevelIndexWrap(w) ==
    (w.levelManager.currentLevelIndex + 1) % Len(w.levelManager.levels)

getNextLevelIndex(w) ==
    LET nextIndex == w.levelManager.currentLevelIndex + 1
    IN  IF nextIndex < Len(w.levelManager.levels) THEN nextIndex ELSE -1

\* fault injection: a moving platform that stops at the far end
movePlatformNoReturn(o, deltaTime) ==
    LET p == Min(o.progress + (deltaTime * o.speed * 10) \div TicksPerSecond,
                 o.distance)
    IN  [o EXCEPT !.progress = p,
                  !.bodyPosition = [o.startPos EXCEPT ![o.axis] = @ + p]]

\* the movingPlatform branch of updateObstacles
movePlatform(o, deltaTime) ==
    LET p == o.progress
             + ((deltaTime * o.speed * 10) \div TicksPerSecond) * o.direction
        direction == IF p >= o.distance THEN -1
                     ELSE IF p <= 0 THEN 1 ELSE o.direction
        progress == IF p >= o.distance THEN o.distance
                    ELSE IF p <= 0 THEN 0 ELSE p
    IN  [o EXCEPT !.progress = progress, !.direction = direction,
                  !.bodyPosition = [o.startPos EXCEPT
                      ![o.axis] = @ + progress * direction]]

updateObstacles(w, deltaTime) ==
    [w EXCEPT !.levelManager.obstacles = [i \in DOMAIN @ |->
                  LET o == w.levelManager.obstacles[i]
                  IN  IF o.type = "revolvingBar"
                      THEN [o EXCEPT !.angularVelocity = o.speed]
                      ELSE IF o.type = "movingPlatform"
                      THEN movePlatform(o, deltaTime)
                      ELSE o],
              !.travel = IF w.levelManager.obstacles = <<>> THEN @
                         ELSE [@ EXCEPT !.time = @ + deltaTime,
                                        !.deltas = @ \cup {deltaTime}]]

InFinish(w, pos) ==
    LET f == LevelAt(w.levelManager.currentLevelIndex).finish
        dx == pos.x - f.position.x
        dz == pos.z - f.position.z
    IN  dx * dx + dz * dz < f.radius * f.radius

\* checkFinish: its return value, and the state it leaves
checkFinishResult(w, pos) == w.levelManager.isLevelComplete \/ InFinish(w, pos)
\* fault injection: checkFinish without the early return
checkFinishAgain(w, pos) ==
    IF InFinish(w, pos)
    THEN [w EXCEPT !.levelManager.isLevelComplete = TRUE,
                   !.levelManager.completionTime =
                       w.clock - w.levelManager.startTime]
    ELSE [w EXCEPT !.levelManager.isLevelComplete = FALSE]

\* fault injection: checkFinish that measures the distance in space
checkFinishInSpace(w, pos) ==
    IF w.levelManager.isLevelComplete THEN w
    ELSE IF Dist2(pos, LevelAt(w.levelManager.currentLevelIndex).finish.position)
               < LevelAt(w.levelManager.currentLevelIndex).finish.radius
                 * LevelAt(w.levelManager.currentLevelIndex).finish.radius
         THEN [w EXCEPT !.levelManager.isLevelComplete = TRUE,
                        !.levelManager.completionTime =
                            w.clock - w.levelManager.startTime,
                        !.ev.entered = TRUE]
         ELSE w

checkFinish(w, pos) ==
    IF w.levelManager.isLevelComplete THEN w
    ELSE IF InFinish(w, pos)
         THEN [w EXCEPT !.levelManager.isLevelComplete = TRUE,
                        !.levelManager.completionTime =
                            w.clock - w.levelManager.startTime,
                        !.ev.entered = TRUE]
         ELSE w

\* LevelManager.update; updateDecorations is cosmetic
levelUpdate(w, deltaTime) ==
    did(checkFinish(did(updateObstacles(w, deltaTime), "levelObstacles"),
                    w.player.meshPosition), "finish")

----------------------------------------------------------------------------
(* Game *)

NewGame ==
    [ isRunning |-> FALSE, isPaused |-> FALSE, isGameOver |-> FALSE,
      isLevelComplete |-> FALSE, score |-> 0,
      hasPlayer |-> FALSE,     \* this.player # null
      screen |-> <<>>,         \* <<uiManager.currentScreen>> where followed
      sinceFrame |-> 0 ]       \* performance.now() - this.lastFrameTime, ticks

\* Game.onLevelComplete; the deferred screen and the sound are notifications
onLevelComplete(w) ==
    IF w.game.isLevelComplete THEN w
    ELSE deferScreen([w EXCEPT !.game.isLevelComplete = TRUE],
                     "levelCompleteScreen", LevelCompleteDelayTicks)

\* new Player(scene, physics, position) with its death callback: the ball's
\* mesh, its sphere body and their pair
createPlayer(w, position) ==
    LET me == Owner("player", -1, 0)
        w1 == sceneAdd(w, {Part(me, "mesh")})
        w2 == addBody(w1, {Part(me, "body")})
        w3 == addBodyMeshPair(w2, Part(me, "body"), Part(me, "mesh"))
    IN  [w3 EXCEPT !.player = NewPlayer(position, TRUE),
                   !.game.hasPlayer = TRUE]

startGame(w) ==
    LET w1 == [w EXCEPT !.ev.call = "startGame",
                        !.game.isRunning = TRUE, !.game.isPaused = FALSE,
                        !.game.isGameOver = FALSE,
                        !.game.isLevelComplete = FALSE, !.game.score = 0]
        w2 == loadLevel(w1, 0)
        playerStartPosition == LevelAt(0).playerStart
    IN  IF ~w2.game.hasPlayer
        THEN createPlayer(w2, playerStartPosition)
        ELSE setSpawnPoint(respawn(w2), playerStartPosition)

pauseGame(w) ==
    IF ~w.game.isRunning THEN w ELSE [w EXCEPT !.game.isPaused = TRUE]

resumeGame(w) ==
    IF ~w.game.isRunning THEN w
    ELSE [w EXCEPT !.game.isPaused = FALSE, !.game.sinceFrame = 0]

restartLevel(w) ==
    LET w1 == [w EXCEPT !.ev.call = "restartLevel",
                        !.game.isGameOver = FALSE,
                        !.game.isLevelComplete = FALSE]
        currentLevelIndex == w1.levelManager.currentLevelIndex
        w2 == loadLevel(w1, currentLevelIndex)
        playerStartPosition == LevelAt(currentLevelIndex).playerStart
        w3 == IF w2.game.hasPlayer
              THEN respawn(setSpawnPoint(w2, playerStartPosition)) ELSE w2
    IN  [w3 EXCEPT !.game.score = 0, !.game.isRunning = TRUE,
                   !.game.isPaused = FALSE]

quitToMenu(w) == [w EXCEPT !.game.isRunning = FALSE, !.game.isPaused = FALSE]

nextLevel(w) ==
    LET nextLevelIndex == getNextLevelIndex(w)
        w1 == [w EXCEPT !.ev.call = "nextLevel"]
    IN
    IF nextLevelIndex = -1 THEN quitToMenu(w1)
    ELSE LET w2 == loadLevel(w1, nextLevelIndex)
             playerStartPosition == LevelAt(nextLevelIndex).playerStart
             w3 == IF w2.game.hasPlayer
                   THEN respawn(setSpawnPoint(w2, playerStartPosition)) ELSE w2
         IN  [w3 EXCEPT !.game.isGameOver = FALSE,
                        !.game.isLevelComplete = FALSE,
                        !.game.isRunning = TRUE, !.game.isPaused = FALSE]

\* PhysicsSystem.update: world.step moves the ball to pos with motion m and
\* may raise a contact event; then the mesh takes the body's position
\* fault injection: a physics step that leaves the ball's mesh where it was
physicsUpdateNoSync(w, pos, m, contact) ==
    LET w1 == [w EXCEPT !.player.position = pos,
                        !.player.velocity = m.velocity,
                        !.player.angularVelocity = m.angularVelocity,
                        !.ev.stepped = <<pos>>]
    IN  IF contact = "none" THEN w1 ELSE onCollide(w1, contact = "up")

\* PhysicsSystem.update as the ball sees it: world.step leaves the body at
\* pos with motion m and may report a contact, then the mesh follows
physicsUpdate(w, pos, m, contact) ==
    LET w1 == [w EXCEPT !.player.position = pos,
                        !.player.velocity = m.velocity,
                        !.player.angularVelocity = m.angularVelocity,
                        !.ev.stepped = <<pos>>]
        w2 == IF contact = "none" THEN w1 ELSE onCollide(w1, contact = "up")
    IN  [w2 EXCEPT !.player.meshPosition = w2.player.position]

\* the part of Game.update after the pause check
updatePhase(w, dt, pos, m, contact, in, h) ==
    LET w1 == did(physicsUpdate(w, pos, m, contact), "physics")
        w2 == did(update(w1, dt, in), "player")
        w3 == IF ~w2.game.isLevelComplete
              THEN IF checkFinishResult(w2, w2.player.meshPosition)
                   THEN onLevelComplete(
                            did(checkFinish(w2, w2.player.meshPosition),
                                "finish"))
                   ELSE did(checkFinish(w2, w2.player.meshPosition), "finish")
              ELSE w2
        w4 == levelUpdate(w3, dt)
    IN  did(updateCollectibles(w4, h), "collectibles")

\* the end of Game.update: the obstacle manager's two calls
obstaclePhase(w, dt) ==
    applyObstacleForces(
        did(updateObstaclesManager([w EXCEPT !.ev.fed = <<dt>>], dt),
            "obstacleMachines"), dt)

\* fault injection: Game.update without the pause check
gameUpdateUnpaused(w, pos, m, contact, in, h) ==
    LET dt == Min(w.game.sinceFrame, DtCapTicks)
        w1 == [w EXCEPT !.game.sinceFrame = 0, !.ev.tick = TRUE]
    IN  IF ~w1.game.hasPlayer THEN w1
        ELSE updatePhase([w1 EXCEPT !.ev.ranUpdate = TRUE],
                         dt, pos, m, contact, in, h)

\* Game.update
gameUpdate(w, pos, m, contact, in, h) ==
    LET dt == Min(w.game.sinceFrame, DtCapTicks)
        w1 == [w EXCEPT !.game.sinceFrame = 0, !.ev.tick = TRUE]
    IN  IF ~w1.game.isRunning \/ w1.game.isPaused THEN w1
        ELSE updatePhase([w1 EXCEPT !.ev.ranUpdate = TRUE],
                         dt, pos, m, contact, in, h)

\* Game.render draws the scene and changes no state of the game
render(w) == [w EXCEPT !.ev.rendered = TRUE]

\* Game.animate: one frame of the loop
animate(w, pos, m, contact, in, h) ==
    render(gameUpdate(w, pos, m, contact, in, h))

----------------------------------------------------------------------------
(* Inputs *)

StallTicks == 100           \* wall-clock time between two frames, in ticks
Deltas == {5}               \* frame deltas handed to Player.update directly
Hovers == {HoverHeight}
Contacts == {"none", "up", "side"}
FrameContacts == {"none", "up"}

Input(f, b, l, r, j) ==
    [forward |-> f, backward |-> b, left |-> l, right |-> r, jump |-> j]
AllInputs ==
    [forward : BOOLEAN, backward : BOOLEAN, left : BOOLEAN, right : BOOLEAN,
     jump : BOOLEAN]
\* the key states the frames of the whole game are driven with
FrameInputs ==
    { Input(FALSE, FALSE, FALSE, FALSE, FALSE),
      Input(TRUE, FALSE, TRUE, FALSE, TRUE) }

\* the key states Player.update is called with directly
PlayerInputs ==
    FrameInputs \cup { Input(FALSE, FALSE, FALSE, FALSE, TRUE) }

Motion(v, a) == [velocity |-> v, angularVelocity |-> a]
AtRest == Motion(Zero3, Zero3)
\* what world.step may leave the ball with
FrameMotions == {Motion(Vec(12, -3, 16), Vec(2, 0, -1))}
StepMotions == {AtRest, Motion(Vec(12, -3, 16), Vec(2, 0, -1))}

BelowDeathPlane == Vec(0, DeathPlaneY - 10, 0)
\* where world.step may leave the ball in level index
Places(index) ==
    {LevelAt(index).playerStart, LevelAt(index).finish.position,
     BelowDeathPlane}
    \cup {LevelAt(index).collectibles[i].position :
             i \in DOMAIN LevelAt(index).collectibles}

Fresh == [World EXCEPT !.ev = NoEv]

----------------------------------------------------------------------------
(* The event loop: wall-clock time and due timers *)

elapse(w, d) ==
    [w EXCEPT !.game.sinceFrame = @ + d,
              !.timers = {[t EXCEPT !.rem = Max(@ - d, 0)] : t \in @}]

\* UIManager.showGameOverScreen, showLevelCompleteScreen, showGameUI
showScreen(w, name) == [w EXCEPT !.game.screen = <<name>>]

fire(w, t) ==
    LET w1 == [w EXCEPT !.timers = @ \ {t}]
    IN  CASE t.kind = "jumpPower" -> jumpPowerExpired(w1)
          [] t.kind = "speedBoost" -> speedBoostExpired(w1)
          [] t.kind = "gameOverScreen" -> showScreen(w1, "gameOver")
          [] t.kind = "levelCompleteScreen" -> showScreen(w1, "levelComplete")
          [] OTHER -> w1

\* wall-clock time passes between two frames
Elapse ==
    /\ game.sinceFrame = 0
    /\ Commit(elapse(Fresh, StallTicks))

\* a due timeout callback runs
TimerFire ==
    \E t \in timers :
        /\ t.rem = 0
        /\ Commit(fire(Fresh, t))

----------------------------------------------------------------------------
(* The game: UI callbacks, key handlers and the frame loop *)

Game_startGame ==
    /\ ~game.isRunning
    /\ Commit(startGame(Fresh))

Game_pauseGame ==
    /\ game.isRunning
    /\ Commit(pauseGame(Fresh))

Game_resumeGame ==
    /\ game.isRunning
    /\ Commit(resumeGame(Fresh))

Game_restartLevel ==
    /\ game.hasPlayer
    /\ Commit(restartLevel(Fresh))

\* the button of the level-complete screen
Game_nextLevel ==
    /\ game.hasPlayer
    /\ game.isLevelComplete
    /\ Commit(nextLevel(Fresh))

Game_quitToMenu ==
    /\ game.isRunning
    /\ Commit(quitToMenu(Fresh))

\* one animate() frame: Game.update, then Game.render
Game_update ==
    /\ game.sinceFrame > 0
    /\ \E pos \in Places(levelManager.currentLevelIndex) \cup {player.position},
          m \in FrameMotions, contact \in FrameContacts, in \in FrameInputs,
          h \in Hovers :
            Commit(animate(Fresh, pos, m, contact, in, h))

Init ==
    /\ player = NewPlayer(Vec(0, 30, 0), FALSE)
    /\ timers = {}
    /\ game = NewGame
    /\ levelManager = NewLevelManager
    /\ obstaclesManager = NewObstaclesManager
    /\ stage = NewStage
    /\ clock = 0
    /\ travel = NoTravel
    /\ jumpLog = NoJumpLog
    /\ collectibles = <<>>
    /\ hist = <<>>
    /\ ev = NoEv

Next ==
    \/ Game_startGame
    \/ Game_pauseGame
    \/ Game_resumeGame
    \/ Game_restartLevel
    \/ Game_nextLevel
    \/ Game_quitToMenu
    \/ Game_update
    \/ Elapse
    \/ TimerFire

Spec == Init /\ [][Next]_vars

----------------------------------------------------------------------------
(* The Player class on its own: its methods called in any order *)

Player_processInput ==
    \E in \in PlayerInputs :
        Commit(processInput(
                   [Fresh EXCEPT !.ev.jumpReq =
                                     IF in.jump THEN "processInput" ELSE "none"],
                   in))

Player_jump ==
    Commit(jump([Fresh EXCEPT !.ev.jumpReq = "jump"]))

\* world.step leaves the ball with motion m, then the method is called
Player_applyMovementForces ==
    \E m \in StepMotions, dt \in Deltas :
        Commit(applyMovementForces(
                   physicsUpdate(Fresh, player.position, m, "none"), dt))

\* the player's part of one frame: PhysicsSystem.update, then Player.update
Player_update ==
    \E pos \in {player.position, BelowDeathPlane}, m \in StepMotions,
       contact \in FrameContacts, dt \in Deltas, in \in PlayerInputs :
        Commit(update(physicsUpdate(Fresh, pos, m, contact), dt, in))

Player_giveJumpPower == Commit(giveJumpPower(Fresh, JumpPowerDuration))

Player_giveSpeedBoost == Commit(giveSpeedBoost(Fresh, SpeedBoostDuration))

Player_respawn == Commit(respawn(Fresh))

Player_setSpawnPoint ==
    Commit(setSpawnPoint(Fresh, Vec(120, 35, 40)))

PlayerElapse ==
    Commit([elapse(Fresh, StallTicks) EXCEPT !.game.sinceFrame = 0])

InitPlayer ==
    /\ player = NewPlayer(Vec(0, 30, 0), TRUE)
    /\ timers = {}
    /\ game = NewGame
    /\ levelManager = NewLevelManager
    /\ obstaclesManager = NewObstaclesManager
    /\ stage = NewStage
    /\ clock = 0
    /\ travel = NoTravel
    /\ jumpLog = NoJumpLog
    /\ collectibles = <<>>
    /\ hist = <<>>
    /\ ev = NoEv

NextPlayer ==
    \/ Player_processInput
    \/ Player_jump
    \/ Player_applyMovementForces
    \/ Player_update
    \/ Player_giveJumpPower
    \/ Player_giveSpeedBoost
    \/ Player_respawn
    \/ Player_setSpawnPoint
    \/ PlayerElapse
    \/ TimerFire

SpecPlayer == InitPlayer /\ [][NextPlayer]_vars

----------------------------------------------------------------------------
(* The keyboard: processInput called with every combination of keys *)

Player_keys ==
    \E in \in AllInputs :
        Commit(processInput(
                   [Fresh EXCEPT !.ev.keys = <<in>>,
                                 !.ev.jumpReq =
                                     IF in.jump THEN "processInput" ELSE "none"],
                   in))

\* a 'collide' event of the ball's body
Player_collide ==
    \E contact \in Contacts \ {"none"} :
        Commit(onCollide(Fresh, contact = "up"))

NextInput ==
    \/ Player_keys
    \/ Player_collide
    \/ Player_giveJumpPower

SpecInput == InitPlayer /\ [][NextInput]_vars

----------------------------------------------------------------------------
(* The CollectiblesManager on its own: collectibles created one by one,    *)
(* update called with the ball anywhere, cleanup                           *)

MaxItems == 3               \* collectibles created between two cleanups
MaxScore == 30              \* no further update once the score is this high

CollItems ==
    { Item("coin", -50, 15, -50), Item("coin", 50, 15, -50),
      Item("jumpPower", -80, 15, 0), Item("checkpoint", 120, 25, 40) }
\* by the first coin: on the rim of its reach when it hovers, and straight
\* above it, in reach of the hovering mesh only
CoinEdgePlaces ==
    { Vec(-50 + CoinRadius + radius, 15 + HoverHeight, -50),
      Vec(-50, 15 + CoinRadius + radius, -50) }
CollPlaces == {Vec(0, 30, 0)} \cup {d.position : d \in CollItems}

\* the place of a type in a level's collectibles: both levels list their
\* coins, then their power-ups, then their checkpoints
TypeRank(type) ==
    CASE type = "coin" -> 0
      [] type = "checkpoint" -> 2
      [] OTHER -> 1

\* LevelManager.createCollectible -> CollectiblesManager.create*: push, in
\* the order of the level's list
Coll_create ==
    /\ Len(collectibles) < MaxItems
    /\ \E data \in CollItems :
          /\ \A i \in DOMAIN collectibles :
                TypeRank(collectibles[i].type) <= TypeRank(data.type)
          /\ Commit([Fresh EXCEPT
                        !.collectibles = Append(@, createCollectible(data)),
                        !.hist = Append(@, NewHist)])

\* CollectiblesManager.update with the ball's mesh at pos
Coll_update ==
    /\ game.score < MaxScore
    /\ \E pos \in CollPlaces, h \in Hovers :
          Commit(updateCollectibles(
                     [Fresh EXCEPT !.player.position = pos,
                                   !.player.meshPosition = pos], h))

\* an update with the ball by the edge of the first coin's reach
Coll_updateNear ==
    /\ game.score < MaxScore
    /\ \E pos \in CoinEdgePlaces, h \in Hovers :
          Commit(updateCollectibles(
                     [Fresh EXCEPT !.player.position = pos,
                                   !.player.meshPosition = pos], h))

Coll_cleanup == Commit(cleanupCollectibles(Fresh))

Coll_resetCollectibles == Commit(resetCollectibles(Fresh))

InitColl ==
    /\ player = NewPlayer(Vec(0, 30, 0), TRUE)
    /\ timers = {}
    /\ game = [NewGame EXCEPT !.hasPlayer = TRUE, !.isRunning = TRUE]
    /\ levelManager = NewLevelManager
    /\ obstaclesManager = NewObstaclesManager
    /\ stage = NewStage
    /\ clock = 0
    /\ travel = NoTravel
    /\ jumpLog = NoJumpLog
    /\ collectibles = <<>>
    /\ hist = <<>>
    /\ ev = NoEv

\* the operations the game uses
NextColl ==
    \/ Coll_create
    \/ Coll_update
    \/ Coll_updateNear
    \/ Coll_cleanup

SpecColl == InitColl /\ [][NextColl]_vars

\* every operation of the class
NextCollAll ==
    \/ Coll_create
    \/ Coll_update
    \/ Coll_cleanup
    \/ Coll_resetCollectibles

SpecCollAll == InitColl /\ [][NextCollAll]_vars

----------------------------------------------------------------------------
(* CollectiblesManager with the notifications of a pickup working or not   *)

\* the coins of the level and the places by them
NotifyItems == {d \in CollItems : d.type = "coin"}
NotifyPlaces == {Vec(0, 30, 0)} \cup {d.position : d \in NotifyItems}

Notify_create ==
    /\ Len(collectibles) < MaxItems
    /\ \E data \in NotifyItems :
          Commit([Fresh EXCEPT
                     !.collectibles = Append(@, createCollectible(data)),
                     !.hist = Append(@, NewHist)])

Notify_update ==
    /\ game.score < MaxScore
    /\ \E pos \in NotifyPlaces, audio \in AudioStates, ui \in UiStates :
          Commit(updateCollectibles(
                     [Fresh EXCEPT !.player.position = pos,
                                   !.player.meshPosition = pos,
                                   !.ev.audio = audio,
                                   !.ev.ui = ui], HoverHeight))

NextNotify ==
    \/ Notify_create
    \/ Notify_update
    \/ Coll_cleanup

SpecNotify == InitColl /\ [][NextNotify]_vars

----------------------------------------------------------------------------
(* ObstaclesManager on its own: obstacles are created, updated, touched    *)
(* by the ball and removed in any order                                    *)

MaxObstacles == 2
ObstacleDeltas == {10, 30}      \* frame deltas of 0.5 s and 1.5 s
SpikeAt == Vec(40, 0, 0)
PendulumAt == Vec(0, 60, 40)
PlatformAt == Vec(30, 10, 0)
VortexAt == Vec(0, 10, 0)
\* the ball resting on the platform, which is on the vortex's rim (distance
\* 30), and the ball inside the vortex at distance 20
ObstaclePlaces == {Vec(30, 17, 0), Vec(12, 10, 16)}

\* obstacles do not interact, so one of each type is created at a time
HasObstacle(type) ==
    \E i \in DOMAIN obstaclesManager.obstacles :
        obstaclesManager.obstacles[i].type = type

OM_createSpikeTrap ==
    /\ stage.made < MaxObstacles
    /\ ~HasObstacle("spikeTrap")
    /\ Commit(createSpikeTrap(Fresh, SpikeAt))

OM_createPendulum ==
    /\ stage.made < MaxObstacles
    /\ ~HasObstacle("pendulum")
    /\ Commit(createPendulum(Fresh, PendulumAt))

OM_createDisappearingPlatform ==
    /\ stage.made < MaxObstacles
    /\ ~HasObstacle("disappearingPlatform")
    /\ Commit(createDisappearingPlatform(Fresh, PlatformAt))

OM_createVortex ==
    /\ stage.made < MaxObstacles
    /\ ~HasObstacle("vortex")
    /\ Commit(createVortex(Fresh, VortexAt))

OM_update ==
    \E deltaTime \in ObstacleDeltas :
        Commit(updateObstaclesManager(
            [Fresh EXCEPT !.ev.fed = <<deltaTime>>], deltaTime))

OM_applyObstacleForces ==
    \E pos \in ObstaclePlaces, deltaTime \in ObstacleDeltas :
        Commit(applyObstacleForces(
            [Fresh EXCEPT !.player.position = pos,
                          !.player.meshPosition = pos], deltaTime))

OM_removeObstacle ==
    \E i \in DOMAIN obstaclesManager.obstacles :
        LET o == obstaclesManager.obstacles[i]
        IN  Commit(removeObstacle([Fresh EXCEPT !.ev.removed = {o.owner}], o))

OM_cleanup ==
    Commit(cleanupObstacles([Fresh EXCEPT !.ev.removed =
        {obstaclesManager.obstacles[i].owner :
            i \in DOMAIN obstaclesManager.obstacles}]))

InitObstacles ==
    /\ player = [NewPlayer(Vec(0, 30, 0), TRUE)
                    EXCEPT !.position = Vec(30, 17, 0),
                           !.meshPosition = Vec(30, 17, 0)]
    /\ timers = {}
    /\ game = [NewGame EXCEPT !.hasPlayer = TRUE, !.isRunning = TRUE]
    /\ levelManager = NewLevelManager
    /\ obstaclesManager = NewObstaclesManager
    /\ stage = NewStage
    /\ clock = 0
    /\ travel = NoTravel
    /\ jumpLog = NoJumpLog
    /\ collectibles = <<>>
    /\ hist = <<>>
    /\ ev = NoEv

NextObstacles ==
    \/ OM_createSpikeTrap
    \/ OM_createPendulum
    \/ OM_createDisappearingPlatform
    \/ OM_createVortex
    \/ OM_update
    \/ OM_applyObstacleForces
    \/ OM_removeObstacle
    \/ OM_cleanup

SpecObstacles == InitObstacles /\ [][NextObstacles]_vars

----------------------------------------------------------------------------
(* A disappearing platform on its own, with the ball resting on it and     *)
(* the ball 0.1 lower, level with the mesh a quarter into its fade         *)

PlatformPlaces == {Vec(30, 17, 0), Vec(30, 16, 0)}

Platform_applyObstacleForces ==
    \E pos \in PlatformPlaces, deltaTime \in ObstacleDeltas :
        Commit(applyObstacleForces(
            [Fresh EXCEPT !.player.position = pos,
                          !.player.meshPosition = pos], deltaTime))

NextPlatform ==
    \/ OM_createDisappearingPlatform
    \/ OM_update
    \/ Platform_applyObstacleForces
    \/ OM_removeObstacle

SpecPlatform == InitObstacles /\ [][NextPlatform]_vars

----------------------------------------------------------------------------
(* PhysicsSystem on its own: boxes are created as the managers create      *)
(* them (a body in the world and its mesh, at one pose), registered as a   *)
(* pair, stepped, removed and cleaned up; a mesh is also moved by its      *)
(* owner, as a fading platform's is                                        *)

MaxPairs == 2
PhysicsBoxes == {1, 2, 3}
Box(k) == Owner("box", -1, k)
Pose(position, quaternion) ==
    [position |-> position, quaternion |-> quaternion]
Poses == {Pose(Vec(0, 0, 0), "identity"), Pose(Vec(0, 10, 0), "turned")}
Created == {k \in PhysicsBoxes : Part(Box(k), "body") \in DOMAIN stage.bodyPose}
Registered ==
    {k \in PhysicsBoxes : indexOf(stage.physicsBodies, Part(Box(k), "body")) > 0}

\* createBoxBody and the mesh its caller makes at the same place
createBox(w, k, pose) ==
    LET body == Part(Box(k), "body")
        mesh == Part(Box(k), "mesh")
        w1 == addBody(sceneAdd(w, {mesh}), {body})
    IN  [w1 EXCEPT !.stage.bodyPose =
                       [b \in DOMAIN @ \cup {body} |->
                           IF b = body THEN pose ELSE @[b]],
                   !.stage.meshPose =
                       [m \in DOMAIN @ \cup {mesh} |->
                           IF m = mesh THEN pose ELSE @[m]]]

PS_createBox ==
    \E k \in PhysicsBoxes \ Created, pose \in Poses :
        Commit(createBox(Fresh, k, pose))

PS_addBodyMeshPair ==
    /\ Len(stage.physicsBodies) < MaxPairs
    /\ \E k \in Created \ Registered :
          /\ Part(Box(k), "body") \in stage.bodies
          /\ Commit(addBodyMeshPair(Fresh, Part(Box(k), "body"),
                                    Part(Box(k), "mesh")))

PS_removeBodyMeshPair ==
    \E k \in Created :
        Commit(removeBodyMeshPair([Fresh EXCEPT !.ev.removed = {Box(k)}],
                                  Part(Box(k), "body"), Part(Box(k), "mesh")))

PS_update ==
    \E stepped \in [DOMAIN stage.bodyPose -> Poses] :
        Commit(physicsSystemUpdate(Fresh, stepped))

PS_moveMesh ==
    \E k \in Created, pose \in Poses :
        Commit([Fresh EXCEPT !.stage.meshPose[Part(Box(k), "mesh")] = pose])

PS_cleanup == Commit(physicsCleanup(Fresh))

NextPhysics ==
    \/ PS_createBox
    \/ PS_addBodyMeshPair
    \/ PS_removeBodyMeshPair
    \/ PS_update
    \/ PS_moveMesh
    \/ PS_cleanup

SpecPhysics == InitObstacles /\ [][NextPhysics]_vars

----------------------------------------------------------------------------
(* LevelManager on its own, with levels that have obstacles: levels are    *)
(* loaded, updated frame by frame and cleared in any order                 *)

MaxTravel == 200                \* simulated time fed to a level, in ticks
LevelDeltas == {10, 20}         \* frame deltas of 0.5 s and 1 s
LevelIndices == 0 .. (Len(ObstacleLevels) - 1)
\* the ball at the level's start and on its finish marker
LevelPlaces(index) ==
    {LevelAt(index).playerStart, LevelAt(index).finish.position}
ObstacleOwners(lm) == {lm.obstacles[i].owner : i \in DOMAIN lm.obstacles}

LM_loadLevel ==
    \E levelIndex \in LevelIndices :
        Commit(loadLevel(Fresh, levelIndex))

LM_update ==
    /\ levelManager.finishArea # <<>>
    /\ \E deltaTime \in LevelDeltas,
          pos \in LevelPlaces(levelManager.currentLevelIndex) :
            /\ travel.time + deltaTime <= MaxTravel
            /\ Commit(levelUpdate(
                   [Fresh EXCEPT !.player.position = pos,
                                 !.player.meshPosition = pos], deltaTime))

LM_cleanup ==
    Commit(clearLevel(
        [Fresh EXCEPT !.ev.removed = ObstacleOwners(levelManager)]))

InitLevel ==
    /\ player = NewPlayer(Vec(0, 30, 0), TRUE)
    /\ timers = {}
    /\ game = [NewGame EXCEPT !.hasPlayer = TRUE, !.isRunning = TRUE]
    /\ levelManager = [NewLevelManager EXCEPT !.levels = ObstacleLevels]
    /\ obstaclesManager = NewObstaclesManager
    /\ stage = NewStage
    /\ clock = 0
    /\ travel = NoTravel
    /\ jumpLog = NoJumpLog
    /\ collectibles = <<>>
    /\ hist = <<>>
    /\ ev = NoEv

NextLevel == LM_loadLevel \/ LM_update \/ LM_cleanup

SpecLevel == InitLevel /\ [][NextLevel]_vars

----------------------------------------------------------------------------
(* Reloading: the levels are loaded over and over, and the sky and lights  *)
(* of each build are told apart.                                           *)

MaxLoads == 3                   \* loadLevel calls followed

Reload_loadLevel ==
    /\ stage.environments[1] < MaxLoads
    /\ LM_loadLevel

InitReload ==
    /\ player = NewPlayer(Vec(0, 30, 0), TRUE)
    /\ timers = {}
    /\ game = [NewGame EXCEPT !.hasPlayer = TRUE, !.isRunning = TRUE]
    /\ levelManager = [NewLevelManager EXCEPT !.levels = ObstacleLevels]
    /\ obstaclesManager = NewObstaclesManager
    /\ stage = [NewStage EXCEPT !.environments = <<0>>]
    /\ clock = 0
    /\ travel = NoTravel
    /\ jumpLog = NoJumpLog
    /\ collectibles = <<>>
    /\ hist = <<>>
    /\ ev = NoEv

NextReload == Reload_loadLevel \/ LM_update \/ LM_cleanup

SpecReload == InitReload /\ [][NextReload]_vars

----------------------------------------------------------------------------
(* Level completion against the clock: levels are loaded, checkFinish is   *)
(* called with the ball anywhere, and time passes                          *)

MaxClock == 4

\* the ball at the start, on the marker, on the marker's rim, inside the
\* rim far below the marker, and off the disc but inside its bounding square
FinishPlaces(index) ==
    LET f == LevelAt(index).finish
    IN  LevelPlaces(index)
        \cup { Vec(f.position.x + f.radius, f.position.y, f.position.z),
               Vec(f.position.x + f.radius - 1, f.position.y - 90,
                   f.position.z),
               Vec(f.position.x + f.radius - 3, f.position.y,
                   f.position.z - f.radius + 3) }

LM_checkFinish ==
    /\ levelManager.finishArea # <<>>
    /\ \E pos \in FinishPlaces(levelManager.currentLevelIndex) :
          LET w == [Fresh EXCEPT !.player.position = pos,
                                 !.player.meshPosition = pos]
          IN  Commit([checkFinish(w, pos) EXCEPT
                         !.ev.finishResult = <<checkFinishResult(w, pos)>>])

\* a tick of wall-clock time passes, whether the game is paused or not:
\* Date.now() and performance.now() move on
Tick ==
    /\ clock < MaxClock
    /\ Commit([elapse(Fresh, 1) EXCEPT
                   !.clock = @ + 1,
                   !.travel.paused = IF game.isRunning /\ game.isPaused
                                     THEN @ + 1 ELSE @])

NextFinish == LM_loadLevel \/ LM_checkFinish \/ Tick

SpecFinish == InitLevel /\ [][NextFinish]_vars

----------------------------------------------------------------------------
(* Jumping: the player's part of the frames of a running game, with the    *)
(* ball landing on surfaces and leaving them.  The 'collide' event comes   *)
(* with a new contact only; nothing tells the player that a contact ended. *)

MaxSince == 12                  \* the frame time since a jump saturates here
JumpDeltas == {1, 2}            \* frame deltas of 0.05 s and 0.1 s (the cap)
JumpInputs ==
    { Input(FALSE, FALSE, FALSE, FALSE, FALSE),
      Input(FALSE, FALSE, FALSE, FALSE, TRUE) }
\* what world.step does to the ball's support
SupportSteps == {"stay", "land", "leave"}

\* the support after world.step
SupportAfter(log, step) ==
    CASE step = "land" -> TRUE
      [] step = "leave" -> FALSE
      [] OTHER -> log.supported

\* the log after a frame of delta dt whose world.step did step, w being the
\* state Player.update left
logFrame(w, step, dt) ==
    LET log == w.jumpLog
        since == Min(log.since + dt, MaxSince)
        grounded == IF step = "land" /\ log.leapt
                    THEN Bump(log.grounded) ELSE log.grounded
    IN  IF w.ev.impulses > 0
        THEN [w EXCEPT
                 !.ev.leap = <<[ first |-> ~log.leapt, gap |-> since,
                                 landings |-> grounded, dt |-> dt,
                                 supported |-> SupportAfter(log, step) ]>>,
                 !.jumpLog = [ supported |-> FALSE, leapt |-> TRUE,
                               since |-> 0, grounded |-> 0 ]]
        ELSE [w EXCEPT
                 !.jumpLog = [ supported |-> SupportAfter(log, step),
                               leapt |-> log.leapt,
                               since |-> IF log.leapt THEN since ELSE 0,
                               grounded |-> grounded ]]

\* PhysicsSystem.update, then Player.update, as Game.update calls them
Jump_frame ==
    \E step \in SupportSteps, dt \in JumpDeltas, in \in JumpInputs :
        /\ (step = "leave") => jumpLog.supported
        /\ Commit(logFrame(
                      update(physicsUpdate(Fresh, player.position, AtRest,
                                           IF step = "land" THEN "up"
                                           ELSE "none"),
                             dt, in),
                      step, dt))

Jump_giveJumpPower ==
    /\ ~player.hasJumpPower
    /\ Commit(giveJumpPower(Fresh, JumpPowerDuration))

\* the ball is put back at its spawn position, above the ground
Jump_respawn ==
    Commit([respawn(Fresh) EXCEPT !.jumpLog.supported = FALSE])

InitJump ==
    /\ player = NewPlayer(Vec(0, 30, 0), TRUE)
    /\ timers = {}
    /\ game = [NewGame EXCEPT !.hasPlayer = TRUE, !.isRunning = TRUE]
    /\ levelManager = NewLevelManager
    /\ obstaclesManager = NewObstaclesManager
    /\ stage = NewStage
    /\ clock = 0
    /\ travel = NoTravel
    /\ jumpLog = NoJumpLog
    /\ collectibles = <<>>
    /\ hist = <<>>
    /\ ev = NoEv

NextJump ==
    \/ Jump_frame
    \/ Jump_giveJumpPower
    \/ Jump_respawn

SpecJump == InitJump /\ [][NextJump]_vars

----------------------------------------------------------------------------
(* A session of the whole game on the levels with their obstacles: the     *)
(* menu and pause buttons, frames with the ball at the start or in the     *)
(* finish area, and the clock.  The frame time fed to the game is at most  *)
(* the wall-clock time that has passed.                                    *)

SessionPlaces(index) ==
    {LevelAt(index).playerStart, LevelAt(index).finish.position}

\* one animate() frame, some time after the frame before
Session_frame ==
    /\ game.sinceFrame > 0
    /\ \E pos \in SessionPlaces(levelManager.currentLevelIndex) :
          Commit(animate(Fresh, pos, AtRest, "none",
                         Input(FALSE, FALSE, FALSE, FALSE, FALSE),
                         HoverHeight))

InitSession ==
    /\ player = NewPlayer(Vec(0, 30, 0), FALSE)
    /\ timers = {}
    /\ game = NewGame
    /\ levelManager = [NewLevelManager EXCEPT !.levels = ObstacleLevels]
    /\ obstaclesManager = NewObstaclesManager
    /\ stage = NewStage
    /\ clock = 0
    /\ travel = NoTravel
    /\ jumpLog = NoJumpLog
    /\ collectibles = <<>>
    /\ hist = <<>>
    /\ ev = NoEv

NextSession ==
    \/ Game_startGame
    \/ Game_pauseGame
    \/ Game_resumeGame
    \/ Game_restartLevel
    \/ Game_nextLevel
    \/ Game_quitToMenu
    \/ Session_frame
    \/ Tick

SpecSession == InitSession /\ [][NextSession]_vars

----------------------------------------------------------------------------
(* The whole of one frame: Game.update with the obstacle manager's calls   *)
(* at its end, then Game.render                                            *)

\* Game.animate with all of Game.update
animateWhole(w, pos, m, contact, in, h) ==
    LET dt == Min(w.game.sinceFrame, DtCapTicks)
        g == gameUpdate(w, pos, m, contact, in, h)
    IN  render(IF g.ev.ranUpdate THEN obstaclePhase(g, dt) ELSE g)

\* the start, the finish area, the place the ball is at, and below the
\* death plane
FramePlaces(index) ==
    SessionPlaces(index) \cup {player.position, BelowDeathPlane}

Frame_animate ==
    /\ game.sinceFrame > 0
    /\ \E pos \in FramePlaces(levelManager.currentLevelIndex),
          contact \in FrameContacts, in \in FrameInputs :
          Commit(animateWhole(Fresh, pos, AtRest, contact, in, HoverHeight))

NextFrame ==
    \/ Game_startGame
    \/ Game_pauseGame
    \/ Game_resumeGame
    \/ Frame_animate
    \/ Tick

SpecFrame == InitSession /\ [][NextFrame]_vars

----------------------------------------------------------------------------
(* The game with its screens: the buttons of the UI show the game screen   *)
(* and call the game; the deferred screens come up when their timers fire  *)

MaxPending == 2

\* UIManager.startGame, restartLevel, goToNextLevel: showGameUI, then the
\* callback
UI_startGame ==
    /\ ~game.isRunning
    /\ Commit(startGame(showScreen(Fresh, "game")))

UI_restartLevel ==
    /\ game.hasPlayer
    /\ Commit(restartLevel(showScreen(Fresh, "game")))

UI_goToNextLevel ==
    /\ game.hasPlayer
    /\ game.screen = <<"levelComplete">>
    /\ Commit(nextLevel(showScreen(Fresh, "game")))

\* at most MaxPending deferred screens wait when a frame runs
Screens_frame ==
    /\ game.sinceFrame > 0
    /\ Cardinality(timers) < MaxPending
    /\ \E pos \in FramePlaces(levelManager.currentLevelIndex) :
          Commit(animate(Fresh, pos, AtRest, "none",
                         Input(FALSE, FALSE, FALSE, FALSE, FALSE),
                         HoverHeight))

InitScreens ==
    /\ player = NewPlayer(Vec(0, 30, 0), FALSE)
    /\ timers = {}
    /\ game = [NewGame EXCEPT !.screen = <<"menu">>]
    /\ levelManager = NewLevelManager
    /\ obstaclesManager = NewObstaclesManager
    /\ stage = NewStage
    /\ clock = 0
    /\ travel = NoTravel
    /\ jumpLog = NoJumpLog
    /\ collectibles = <<>>
    /\ hist = <<>>
    /\ ev = NoEv

NextScreens ==
    \/ UI_startGame
    \/ UI_restartLevel
    \/ UI_goToNextLevel
    \/ Screens_frame
    \/ Elapse
    \/ TimerFire

SpecScreens == InitScreens /\ [][NextScreens]_vars

----------------------------------------------------------------------------
(* Claims *)

\* the jump state of the player a jump request may change
JumpState(p) == <<p.velocity, p.canJump, p.isJumping, p.jumpCooldown>>

\* C1 (as stated): a jump request, made through processInput or by calling
\* jump() directly, applies the impulse only when canJump, jumpCooldown <= 0
\* and hasJumpPower all hold, and otherwise leaves velocity, canJump,
\* isJumping and jumpCooldown as they were.
C1_Original ==
    [][ev'.jumpReq # "none" =>
          LET permitted == /\ player.canJump
                           /\ player.jumpCooldown <= 0
                           /\ player.hasJumpPower
          IN  /\ ev'.impulses > 0 => permitted
              /\ ~permitted => JumpState(player') = JumpState(player)]_vars

\* C1 (amended): a jump request made through processInput applies the
\* impulse only when canJump, jumpCooldown <= 0 and hasJumpPower all hold; a
\* direct jump() call applies it only when canJump and hasJumpPower hold (it
\* does not look at jumpCooldown); a request that is not permitted in this
\* sense leaves velocity, canJump, isJumping and jumpCooldown as they were.
C1_JumpGate ==
    [][ev'.jumpReq # "none" =>
          LET permitted == /\ player.canJump
                           /\ player.hasJumpPower
                           /\ (ev'.jumpReq = "processInput"
                                  => player.jumpCooldown <= 0)
          IN  /\ ev'.impulses > 0 => permitted
              /\ ~permitted => JumpState(player') = JumpState(player)]_vars

\* C1 witness: processInput was asked to jump while grounded, with the
\* power-up, during the cooldown, and applied no impulse
C1_Witness ==
    /\ ev.jumpReq = "processInput"
    /\ ev.impulses = 0
    /\ player.canJump /\ player.hasJumpPower /\ player.jumpCooldown > 0

\* squared horizontal speed, and the speed cap as the fraction m[1]/m[2] of
\* maxSpeed
Speed2(p) == p.velocity.x * p.velocity.x + p.velocity.z * p.velocity.z
WithinCap(p) ==
    LET m == speedMultiplier(p)
    IN  Speed2(p) * m[2] * m[2] <= maxSpeed * maxSpeed * m[1] * m[1]

\* C2 (as stated): after every applyMovementForces call, moving or not, the
\* horizontal speed is at most maxSpeed, or maxSpeed * speedBoostFactor
\* while hasSpeedBoost is true.
C2_SpeedCap == ev.movement # "none" => WithinCap(player)

PowerTimers(kind) == {t \in timers : t.kind = kind}

\* C3: when Player.update has run with the ball below the death plane, the
\* body is at the current spawnPosition and its linear and angular velocity
\* are zero.  (update moves the body only: the mesh still shows where the
\* ball was observed.)
C3_DeathRespawn ==
    (ev.updated /\ player.meshPosition.y < DeathPlaneY) =>
        /\ ev.deaths = 1
        /\ player.position = player.spawnPosition
        /\ player.velocity = Zero3
        /\ player.angularVelocity = Zero3

\* C3 witness: a death that put the ball on a spawn point a checkpoint set
C3_Witness ==
    /\ ev.updated /\ ev.deaths = 1
    /\ player.meshPosition = BelowDeathPlane
    /\ player.position = Vec(120, 35, 40)

\* C4: a death leaves hasJumpPower and hasSpeedBoost false and no power-up
\* expiry pending, and it invokes the registered death callback exactly once.
C4_DeathClears ==
    ev.deaths > 0 =>
        /\ ~player.hasJumpPower /\ ~player.hasSpeedBoost
        /\ PowerTimers("jumpPower") = {} /\ PowerTimers("speedBoost") = {}
        /\ player.jumpPowerTimeout = NoTimer
        /\ player.speedBoostTimeout = NoTimer
        /\ player.onDeath => ev.onDeathCalls = 1 /\ ev.deaths = 1

\* C4 witness: a death with both power-ups active (two timeouts cleared)
C4_Witness ==
    ev.deaths = 1 /\ ev.cleared = 2 /\ ev.onDeathCalls = 1 /\ timers = {}

C6_PausedFreeze ==
    [][(game.isPaused /\ game'.isPaused) =>
          /\ timers' = timers
          /\ player'.hasJumpPower = player.hasJumpPower
          /\ player'.hasSpeedBoost = player.hasSpeedBoost]_vars

\* the one pending expiry of a power-up: its handle and what remains
Pending(kind, flag, handle) ==
    IF flag
    THEN \E t \in timers : PowerTimers(kind) = {t} /\ t.id = handle
    ELSE PowerTimers(kind) = {} /\ handle = NoTimer

\* C7: a power-up's flag is true exactly while one expiry is pending for it,
\* the one its handle names; right after a grant that expiry is a full
\* duration away, also when the grant replaced a pending one; and the
\* multiplier applied to force and speed cap is 3/2 with a boost, 1 without,
\* never more.
C7_RestartNoStack ==
    /\ Pending("jumpPower", player.hasJumpPower, player.jumpPowerTimeout)
    /\ Pending("speedBoost", player.hasSpeedBoost, player.speedBoostTimeout)
    /\ ev.granted = "jumpPower" =>
          /\ player.hasJumpPower
          /\ \A t \in PowerTimers("jumpPower") :
                 t.rem = JumpPowerDuration * TicksPerSecond
    /\ ev.granted = "speedBoost" =>
          /\ player.hasSpeedBoost
          /\ \A t \in PowerTimers("speedBoost") :
                 t.rem = SpeedBoostDuration * TicksPerSecond
    /\ ev.multiplier \in {<<1, 1>>, <<SpeedBoostNum, SpeedBoostDen>>}
    /\ (ev.movement = "force" /\ ev.deaths = 0) =>
          ev.multiplier = IF player.hasSpeedBoost
                          THEN <<SpeedBoostNum, SpeedBoostDen>> ELSE <<1, 1>>

\* C7 witness: a speed boost granted again while one was pending
C7_Witness ==
    /\ ev.granted = "speedBoost" /\ ev.cleared = 1
    /\ Cardinality(PowerTimers("speedBoost")) = 1

Checkpoints(cs) == {i \in DOMAIN cs : cs[i].type = "checkpoint"}

\* C8: over any number of pickups of a checkpoint in one level instance,
\* activated went from false to true once, setSpawnPoint and
\* onCheckpointActivated were called once each, collected is false after
\* every pickup, and the spawn point set is the checkpoint's mesh position
\* raised by 1.
C8_CheckpointOnce ==
    \A i \in Checkpoints(collectibles) :
        /\ hist[i].activations <= 1
        /\ hist[i].spawnSets = hist[i].activations
        /\ hist[i].activatedCb = hist[i].activations
        /\ collectibles[i].activated <=> hist[i].activations = 1
        /\ hist[i].pickups > 0 => collectibles[i].activated
        /\ ~collectibles[i].collected
        /\ (i \in ev.touched /\ ev.checkpointCb > 0) =>
              player.spawnPosition =
                  [MeshPosition(World, i) EXCEPT !.y = @ + CheckpointLift]

\* C8 witness: a checkpoint picked up at least twice since the level loaded
C8_Witness ==
    \E i \in Checkpoints(collectibles) :
        /\ hist[i].pickups >= 2
        /\ hist[i].activations = 1
        /\ i \in ev.touched

\* C9 (as stated): restartLevel keeps every activated checkpoint activated,
\* and right after a different level is loaded no checkpoint is activated.
C9_RestartKeepsCheckpoints ==
    [][/\ Game_restartLevel =>
             \A i \in Checkpoints(collectibles) :
                 collectibles[i].activated =>
                     /\ i \in Checkpoints(collectibles')
                     /\ collectibles'[i].activated
       /\ levelManager'.currentLevelIndex # levelManager.currentLevelIndex =>
             \A i \in Checkpoints(collectibles') :
                 ~collectibles'[i].activated]_vars

\* the collision test of checkCollisions on a player p and a collectible c
Inside(p, c) ==
    Dist2(p.meshPosition, [c.basePosition EXCEPT !.y = @ + c.hover])
        < (c.radius + radius) * (c.radius + radius)

\* C10 (as stated): a frame that finds the player inside the radius of a
\* checkpoint that is already activated changes nothing for it: no
\* collection effect, no onCheckpointActivated, no onCollectible, spawn
\* point, score and the checkpoint's flags as before.
C10_ActivatedInert ==
    [][\A i \in Checkpoints(collectibles) :
          (/\ collectibles[i].activated
           /\ ev'.ranUpdate
           /\ Inside(player', collectibles'[i])) =>
              /\ ev'.collectibleCb = 0
              /\ ev'.checkpointCb = 0
              /\ ev'.effects = 0
              /\ player'.spawnPosition = player.spawnPosition
              /\ game'.score = game.score
              /\ collectibles'[i].activated
              /\ ~collectibles'[i].collected]_vars

\* coins and power-ups: the collectibles a pickup consumes
Consumables(cs) == {i \in DOMAIN cs : cs[i].type # "checkpoint"}

\* a collected coin or power-up i is still collected, out of the scene and
\* untouched after the step
StaysCollected(i) ==
    /\ i \in DOMAIN collectibles'
    /\ collectibles'[i].collected
    /\ ~collectibles'[i].inScene
    /\ i \notin ev'.touched
    /\ hist'[i].pickups = hist[i].pickups

\* C11 (as stated): under any sequence of CollectiblesManager operations, a
\* coin or power-up that is collected is out of the scene, and it stays
\* collected, out of the scene and is not picked up again by any step other
\* than the clearing of the level: it is collected at most once per load.
C11_Original ==
    [][\A i \in Consumables(collectibles) :
          /\ hist[i].pickups <= 1
          /\ collectibles[i].collected =>
                /\ ~collectibles[i].inScene
                /\ ~Coll_cleanup => StaysCollected(i)]_vars

\* C11 (amended): the same, until the level is cleared or resetCollectibles
\* runs: between two such calls every coin and power-up is picked up at
\* most once, and while collected it is skipped and out of the scene.
C11_CollectedUntilReset ==
    [][\A i \in Consumables(collectibles) :
          collectibles[i].collected =>
              /\ ~collectibles[i].inScene
              /\ (~Coll_cleanup /\ ~Coll_resetCollectibles)
                    => StaysCollected(i)]_vars

\* C11 witness: an update with the ball on two coins at one place picked up
\* the one that was not collected and skipped the one that was
C11_Witness ==
    \E i, j \in Consumables(collectibles) :
        /\ collectibles[i].basePosition = collectibles[j].basePosition
        /\ player.meshPosition = collectibles[i].basePosition
        /\ collectibles[i].collected /\ i \notin ev.touched
        /\ j \in ev.touched

Coins(cs) == {i \in DOMAIN cs : cs[i].type = "coin"}

\* C12: an update that picks up n coins calls onCoinCollected n times and
\* raises Game.score by n times the coin value 10; afterwards
\* getCollectedCoins() is the number of coins picked up since the level was
\* cleared, getCoinCount() is the number of coins, unchanged by the update,
\* and getCollectedCoins() <= getCoinCount().
C12_CoinAccounting ==
    [][(ev'.touched # {} \/ Coll_update) =>
          LET picked == Coins(collectibles') \cap ev'.touched
              n == Cardinality(picked)
              after == [World EXCEPT !.collectibles = collectibles']
          IN  /\ ev'.coinCb = Min(n, MaxCount)
              /\ game'.score = game.score + n * CoinValue
              /\ getCollectedCoins(after) = getCollectedCoins(World) + n
              /\ getCollectedCoins(after) =
                    Cardinality({i \in Coins(collectibles') :
                                    hist'[i].pickups = 1})
              /\ \A i \in Coins(collectibles') : hist'[i].pickups <= 1
              /\ getCoinCount(after) = getCoinCount(World)
              /\ getCoinCount(after) = Cardinality(Coins(collectibles'))
              /\ getCollectedCoins(after) <= getCoinCount(after)]_vars

\* C12 witness: two of three coins picked up, score 20
C12_Witness ==
    /\ getCoinCount(World) = 3
    /\ getCollectedCoins(World) = 2
    /\ game.score = 2 * CoinValue
    /\ ev.coinCb = 1

\* the disappearing platforms among the manager's obstacles
Platforms(om) ==
    {i \in DOMAIN om.obstacles : om.obstacles[i].type = "disappearingPlatform"}

\* C13: a Solid disappearing platform that got one onPlayerContact() is Gone
\* (invisible, collision response off) as soon as update has been given a
\* cumulative 0.5 s, and Solid again (original position, opacity 1,
\* collision response on) as soon as update has been given a further 2.0 s:
\* it is never still fading with 0.5 s or more on its disappear timer, nor
\* still Gone with 2.0 s or more on its respawn timer.
C13_DisappearCycle ==
    \A i \in Platforms(obstaclesManager) :
        LET o == obstaclesManager.obstacles[i]
        IN  /\ o.isDisappearing => o.disappearTimer < DisappearDelayTicks
            /\ o.isDisappeared =>
                  /\ o.respawnTimer < DisappearDurationTicks
                  /\ ~o.visible /\ ~o.collisionResponse
            /\ (~o.isDisappearing /\ ~o.isDisappeared) =>
                  /\ o.visible /\ o.collisionResponse
                  /\ o.opacity = DisappearDurationTicks /\ o.meshDrop = 0

\* the moving platforms among the level's obstacles
MovingPlatforms(lm) ==
    {i \in DOMAIN lm.obstacles : lm.obstacles[i].type = "movingPlatform"}
OtherAxes(o) == {"x", "y", "z"} \ {o.axis}

\* C14: in every state updateObstacles leaves, a moving platform's body is
\* off its start position only along its configured axis, by an offset from
\* 0 to distance inclusive.
C14_PlatformRange ==
    \A i \in MovingPlatforms(levelManager) :
        LET o == levelManager.obstacles[i]
            offset == o.bodyPosition[o.axis] - o.startPos[o.axis]
        IN  /\ \A a \in OtherAxes(o) : o.bodyPosition[a] = o.startPos[a]
            /\ 0 <= offset /\ offset <= o.distance

\* the frame delta divides distance / speed evenly
EvenDelta(o, deltaTime) ==
    (o.distance * TicksPerSecond) % (deltaTime * o.speed * 10) = 0
\* the simulated time is a whole number of periods 2 * distance / speed
WholePeriods(o, time) ==
    (time * o.speed * 10) % (2 * o.distance * TicksPerSecond) = 0

SpikeTraps(om) ==
    {i \in DOMAIN om.obstacles : om.obstacles[i].type = "spikeTrap"}
\* a trap is Armed (spikes shown and colliding) or Hidden, as told
TrapIs(o, armed) ==
    o.isActive = armed /\ o.visible = armed /\ o.collisionResponse = armed
PhaseTicks(armed) == IF armed THEN SpikeArmedTicks ELSE SpikeHiddenTicks
\* the update time accumulated in the manager's current phase
Accumulated(om) == PhaseTicks(om.spikesActive) - om.timeToNextSpikeToggle

\* the manager starts Hidden; an update that brings the accumulated time of
\* the phase to its length (2 s Hidden, 1 s Armed) starts the other phase,
\* any other update only adds its delta; no other operation touches the
\* cycle, and the time left in a phase stays positive, so the next update
\* counts again
SpikeCycle ==
    /\ ~obstaclesManager.spikesActive
    /\ obstaclesManager.timeToNextSpikeToggle = SpikeHiddenTicks
    /\ [][LET om == obstaclesManager
              after == obstaclesManager'
          IN  /\ after.timeToNextSpikeToggle > 0
              /\ IF ev'.fed = <<>>
                 THEN /\ after.spikesActive = om.spikesActive
                      /\ after.timeToNextSpikeToggle = om.timeToNextSpikeToggle
                 ELSE IF Accumulated(om) + ev'.fed[1] >= PhaseTicks(om.spikesActive)
                 THEN /\ after.spikesActive = ~om.spikesActive
                      /\ Accumulated(after) = 0
                 ELSE /\ after.spikesActive = om.spikesActive
                      /\ Accumulated(after) = Accumulated(om) + ev'.fed[1]]_vars

Vortices(om) == {i \in DOMAIN om.obstacles : om.obstacles[i].type = "vortex"}
\* the whole square root; the ball's places are at whole distances
Isqrt(n) == CHOOSE k \in 0..n : k * k <= n /\ n < (k + 1) * (k + 1)
\* the force the claim describes, as a vector of fractions num / den: the
\* unit vector from the ball to the centre times (1 - d / radius) *
\* strength * deltaTime
VortexPull(o, pos, deltaTime) ==
    LET dx == o.position.x - pos.x
        dz == o.position.z - pos.z
        d == Isqrt(dx * dx + dz * dz)
        pull == (o.radius - d) * o.strength * deltaTime
    IN  [ by |-> o.owner,
          num |-> [x |-> dx * pull, y |-> 0, z |-> dz * pull],
          den |-> d * o.radius * TicksPerSecond ]

\* C17: for a ball at horizontal distance 0 < d < radius from a vortex's
\* centre, applyObstacleForces applies to the ball's body a horizontal force
\* toward the centre of magnitude (1 - d / radius) * strength, scaled by
\* dt, and returns; at d >= radius the vortex applies no force.
C17_VortexForce ==
    ev.forceCall # <<>> =>
        /\ ~ev.threw
        /\ \A i \in Vortices(obstaclesManager) :
              LET o == obstaclesManager.obstacles[i]
                  mine == {f \in ev.forces : f.by = o.owner}
              IN  IF WithinVortex(o, player.meshPosition)
                  THEN mine = {VortexPull(o, player.meshPosition,
                                          ev.forceCall[1])}
                  ELSE mine = {}

\* what the scene and the physics system still hold of an owner's objects
Remains(me) ==
    [ nodes       |-> {n \in stage.scene : n.owner = me},
      bodies      |-> {b \in stage.bodies : b.owner = me},
      constraints |-> {c \in stage.constraints : c.owner = me},
      pairs       |-> {p \in PairSet(stage) :
                              p[1].owner = me \/ p[2].owner = me} ]
NothingRemains ==
    [nodes |-> {}, bodies |-> {}, constraints |-> {}, pairs |-> {}]

\* C18: once an obstacle has been removed (removeObstacle or cleanup of the
\* ObstaclesManager, clearLevel of the LevelManager), none of its bodies and
\* none of its constraints is in the physics world, none of its body-mesh
\* pairs is registered with the physics system and none of its meshes is in
\* the scene.
C18_RemovalComplete == \A me \in ev.removed : Remains(me) = NothingRemains

\* the objects loadLevel instantiates for a level, by the owner's kind
LevelKinds == {"platform", "obstacle", "decoration", "finish", "finishParticle"}
OfLevel(objects) == {o \in objects : o.owner.kind \in LevelKinds}
LevelOwners(index, kind, entries) ==
    {Owner(kind, index, k) : k \in DOMAIN entries}
\* what building the level at `index` puts on the stage
Solids(index) ==
    LevelOwners(index, "platform", levelManager.levels[index + 1].platforms)
    \cup LevelOwners(index, "obstacle", levelManager.levels[index + 1].obstacles)
Visuals(index) ==
    Solids(index)
    \cup LevelOwners(index, "decoration",
                     levelManager.levels[index + 1].decorations)
    \cup {Owner("finish", index, 0), Owner("finishParticle", index, 0)}
Bars(index) ==
    {Owner("obstacle", index, k) :
        k \in {j \in DOMAIN levelManager.levels[index + 1].obstacles :
                 levelManager.levels[index + 1].obstacles[j].type
                     = "revolvingBar"}}

\* the meshes, bodies, body-mesh pairs and collectibles of the level loaded
\* last are on the stage, and no others of a level
MeshesAndBodiesExact ==
    levelManager.platforms # <<>> =>
        LET index == levelManager.currentLevelIndex
            level == levelManager.levels[index + 1]
        IN  /\ OfLevel(stage.scene) = {Part(me, "mesh") : me \in Visuals(index)}
            /\ OfLevel(stage.bodies) = {Part(me, "body") : me \in Solids(index)}
            /\ {p \in PairSet(stage) : p[1].owner.kind \in LevelKinds}
                  = {<<Part(me, "body"), Part(me, "mesh")>> : me \in Solids(index)}
            /\ Len(collectibles) = Len(level.collectibles)
            /\ \A i \in DOMAIN collectibles :
                  /\ collectibles[i].basePosition = level.collectibles[i].position
                  /\ collectibles[i].inScene = ~collectibles[i].collected

\* C19: while a level is loaded, after any sequence of loadLevel calls, the
\* platforms, obstacles, decorations, collectibles and finish marker in the
\* scene and in the physics world are exactly those instantiated for the
\* level loaded last; nothing of these kinds from an earlier load is left,
\* an obstacle's constraint included.
C19_LevelExact ==
    /\ MeshesAndBodiesExact
    /\ levelManager.platforms # <<>> =>
          OfLevel(stage.constraints) =
              {Part(me, "constraint") : me \in Bars(levelManager.currentLevelIndex)}

\* C20: once checkFinish has returned true, and until loadLevel is called,
\* every checkFinish call returns true wherever the ball is, and
\* isLevelComplete and completionTime keep their values.
C20_FinishLatched ==
    [][(levelManager.isLevelComplete /\ ~LM_loadLevel) =>
          /\ levelManager'.isLevelComplete
          /\ levelManager'.completionTime = levelManager.completionTime
          /\ ev'.finishResult \in {<<>>, <<TRUE>>}]_vars

\* C20 witness: the level was completed earlier, the ball is back at the
\* start, time has passed since, and checkFinish has just returned true
C20_Witness ==
    /\ levelManager.isLevelComplete
    /\ ev.finishResult = <<TRUE>>
    /\ ~InFinish(World, player.meshPosition)
    /\ clock > levelManager.startTime + levelManager.completionTime

----------------------------------------------------------------------------
(* Level progression *)

ValidIndex(lm) == lm.currentLevelIndex \in 0..(Len(lm.levels) - 1)
\* the index after the current one, or the sentinel
FollowingIndex(lm) ==
    IF lm.currentLevelIndex + 1 \in 0..(Len(lm.levels) - 1)
    THEN lm.currentLevelIndex + 1 ELSE -1
\* the collectibles of level index as buildLevel creates them
BuiltCollectibles(index) ==
    [i \in DOMAIN LevelAt(index).collectibles |->
        createCollectible(LevelAt(index).collectibles[i])]

\* C21: getNextLevelIndex is the index after the current one when that is a
\* level and -1 otherwise; Game.nextLevel on the last level loads nothing and
\* leaves gameplay (isRunning = false), on any other level it loads exactly
\* the next level; currentLevelIndex is always an index of the level list.
C21_NextLevel ==
    [][ /\ ValidIndex(levelManager')
        /\ getNextLevelIndex(World) = FollowingIndex(levelManager)
        /\ (ev'.call = "nextLevel") =>
              IF FollowingIndex(levelManager) = -1
              THEN /\ ev'.loaded = <<>>
                   /\ ~game'.isRunning
                   /\ levelManager' = levelManager
                   /\ collectibles' = collectibles
                   /\ stage' = stage
              ELSE /\ ev'.loaded = <<FollowingIndex(levelManager)>>
                   /\ levelManager'.currentLevelIndex
                          = FollowingIndex(levelManager)
                   /\ collectibles'
                          = BuiltCollectibles(FollowingIndex(levelManager))
                   /\ game'.isRunning ]_vars

\* nextLevel was called on the last level
C21_Witness ==
    /\ ev.call = "nextLevel"
    /\ ev.loaded = <<>>
    /\ levelManager.currentLevelIndex = Len(levelManager.levels) - 1
    /\ ~game.isRunning

\* C22: a frame tick while the game is paused or not running changes no
\* physics body, player, obstacle, collectible, score or level-completion
\* state, and every tick, paused or not, is followed by Game.render.
C22_PausedTick ==
    [][ev'.tick =>
          /\ ev'.rendered
          /\ (~game.isRunning \/ game.isPaused) =>
                /\ player' = player
                /\ stage' = stage
                /\ obstaclesManager' = obstaclesManager
                /\ collectibles' = collectibles
                /\ levelManager' = levelManager
                /\ travel' = travel
                /\ game'.score = game.score
                /\ game'.isLevelComplete = game.isLevelComplete
                /\ game'.isGameOver = game.isGameOver]_vars

\* a tick of a paused game whose level holds collectibles still to collect
C22_Witness ==
    /\ ev.tick /\ ev.rendered /\ ~ev.ranUpdate
    /\ game.isRunning /\ game.isPaused /\ game.hasPlayer
    /\ \E i \in DOMAIN collectibles : ~collectibles[i].collected

----------------------------------------------------------------------------
(* Jumping *)

\* C23 (as stated): a jump leaves canJump false, isJumping true and the
\* cooldown at 0.5 s (less the frame's own delta, taken off after the jump),
\* and since the previous impulse at least 0.5 s of frame time has elapsed
\* and at least one contact with an upward normal has been received.
C23_JumpSpacing ==
    ev.leap # <<>> =>
        /\ ~player.canJump /\ player.isJumping
        /\ player.jumpCooldown + ev.leap[1].dt = JumpCooldownTicks
        /\ ~ev.leap[1].first =>
              /\ ev.leap[1].gap >= JumpCooldownTicks
              /\ ev.leap[1].landings >= 1

\* C24 (as stated): a jump impulse is applied only while a surface supports
\* the ball, and a ball that no surface supports (it rolled off an edge, or
\* the platform under it went away) is Airborne: canJump is false.
C24_SupportedJump ==
    /\ ev.leap # <<>> => ev.leap[1].supported
    /\ ~jumpLog.supported => ~player.canJump

----------------------------------------------------------------------------
(* Starting a level *)

\* C25 (as stated): after startGame, restartLevel and a nextLevel that loads
\* a level, the ball's body is at the loaded level's playerStart with zero
\* velocity and the spawn point is that playerStart.
C25_StartAtPlayerStart ==
    (ev.call \in {"startGame", "restartLevel", "nextLevel"}
        /\ ev.loaded # <<>>) =>
        LET start == LevelAt(ev.loaded[1]).playerStart
        IN  /\ player.position = start
            /\ player.velocity = Zero3
            /\ player.spawnPosition = start

----------------------------------------------------------------------------
(* Revolving bars *)

\* the mass a body was created with
BodyMass(body) ==
    CASE body.owner.kind = "player" -> 1
      [] body.owner.kind = "platform" -> 0
      [] body.owner.kind = "obstacle" ->
            IF levelManager.levels[body.owner.level + 1]
                   .obstacles[body.owner.index].type = "revolvingBar"
            THEN 1 ELSE 5
      [] OTHER -> 0

\* where a body is
BodyPosition(body) ==
    CASE body.owner.kind = "player" -> player.position
      [] body.owner.kind = "platform" ->
            levelManager.levels[body.owner.level + 1]
                .platforms[body.owner.index].position
      [] OTHER -> Zero3

\* the world position of a bar's pivot: the constraint's pivot on the anchor
\* body is the bar's configured position taken in the anchor's own frame
PivotPosition(o) ==
    LET at == BodyPosition(o.anchor[1])
    IN  Vec(at.x + o.startPos.x, at.y + o.startPos.y, at.z + o.startPos.z)

\* C26 (as stated): every revolving bar of the level loaded is anchored by its
\* point constraint to an immovable (mass 0) body, with the pivot at the
\* bar's configured position.
C26_BarAnchored ==
    \A i \in DOMAIN levelManager.obstacles :
        LET o == levelManager.obstacles[i]
        IN  o.type = "revolvingBar" =>
                /\ o.anchor # <<>>
                /\ BodyMass(o.anchor[1]) = 0
                /\ PivotPosition(o) = o.startPos

----------------------------------------------------------------------------
(* Completion time *)

\* C27 (as stated): the completion time taken when the ball first enters the
\* finish zone is the time since loadLevel less the time the game was paused
\* for.
C27_UnpausedTime ==
    [][(~levelManager.isLevelComplete /\ levelManager'.isLevelComplete) =>
          levelManager'.completionTime
              = (clock' - levelManager'.startTime) - travel'.paused]_vars

\* the ball is within the finish radius of the marker, measured on the
\* ground plane
OverFinish(lm, pos) ==
    LET f == lm.levels[lm.currentLevelIndex + 1].finish
    IN  (pos.x - f.position.x) * (pos.x - f.position.x)
        + (pos.z - f.position.z) * (pos.z - f.position.z)
            < f.radius * f.radius

\* C28: while the level is not complete, checkFinish completes the level and
\* returns true exactly when the horizontal distance from the ball to the
\* marker's centre is strictly less than the finish radius, whatever the
\* ball's height; otherwise it returns false and changes nothing.
C28_FinishTest ==
    [][(ev'.finishResult # <<>> /\ ~levelManager.isLevelComplete) =>
          LET near == OverFinish(levelManager, player'.meshPosition)
          IN  /\ ev'.finishResult = <<near>>
              /\ levelManager'.isLevelComplete = near
              /\ ev'.entered = near
              /\ ~near => (levelManager' = levelManager /\ stage' = stage
                           /\ collectibles' = collectibles)]_vars

\* the level was completed by a ball far below the marker
C28_Witness ==
    /\ ev.entered /\ ev.finishResult = <<TRUE>>
    /\ levelManager.isLevelComplete
    /\ player.meshPosition.y
           < levelManager.levels[levelManager.currentLevelIndex + 1]
                 .finish.position.y - 50

----------------------------------------------------------------------------
(* Picking up *)

\* the squared distance from the ball's mesh to the hovering mesh of c
HoverDist2(p, c) ==
    Dist2(p.meshPosition, [c.basePosition EXCEPT !.y = @ + HoverHeight])

\* C29: in each CollectiblesManager.update a collectible that is not
\* collected is picked up if and only if the distance between the ball and
\* the collectible is strictly less than the sum of their radii; one at or
\* beyond that distance is left as it was (but for its hover).
C29_PickupTest ==
    [][(Coll_update \/ Coll_updateNear) =>
          \A i \in DOMAIN collectibles :
              ~collectibles[i].collected =>
                  LET c == collectibles[i]
                      reach == radius + c.radius
                      near == HoverDist2(player', c) < reach * reach
                  IN  /\ (i \in ev'.touched) <=> near
                      /\ ~near => collectibles'[i]
                                     = [c EXCEPT !.hover = HoverHeight]]_vars

\* an update left alone a coin whose rim the ball touches
C29_Witness ==
    \E i \in DOMAIN collectibles :
        /\ collectibles[i].type = "coin"
        /\ ~collectibles[i].collected
        /\ collectibles[i].hover = HoverHeight
        /\ i \notin ev.touched
        /\ HoverDist2(player, collectibles[i])
              = (radius + CoinRadius) * (radius + CoinRadius)

----------------------------------------------------------------------------
(* The states of a disappearing platform *)

Solid(o) == ~o.isDisappearing /\ ~o.isDisappeared
Disappearing(o) == o.isDisappearing /\ ~o.isDisappeared
Gone(o) == o.isDisappeared /\ ~o.isDisappearing

\* C30: a disappearing platform is always in exactly one of Solid,
\* Disappearing and Gone (isDisappearing and isDisappeared are never both
\* true); onPlayerContact changes the platform only when it is Solid, and
\* so never restarts a running timer; and the body's collision response is
\* off exactly while the platform is Gone.
C30_PlatformStates ==
    /\ [](\A i \in Platforms(obstaclesManager) :
              LET o == obstaclesManager.obstacles[i]
              IN  /\ ~(o.isDisappearing /\ o.isDisappeared)
                  /\ o.collisionResponse <=> ~Gone(o))
    /\ [][Platform_applyObstacleForces =>
             \A i \in ev'.contacts :
                 LET o == obstaclesManager.obstacles[i]
                     after == obstaclesManager'.obstacles[i]
                 IN  IF Solid(o)
                     THEN after = [o EXCEPT !.isDisappearing = TRUE,
                                            !.disappearTimer = 0]
                     ELSE after = o]_vars

\* the ball touched a platform that was a quarter into its fade, and one
\* that was gone
C30_Witness ==
    \E i \in ev.contacts :
        LET o == obstaclesManager.obstacles[i]
        IN  \/ Disappearing(o) /\ o.disappearTimer > 0
            \/ Gone(o) /\ o.respawnTimer > 0

----------------------------------------------------------------------------
(* Spike traps and the manager's phase *)

\* C31: for every spike trap in every state the spike body's collision
\* response is enabled if and only if the trap is Armed, and every trap's
\* phase is the manager's phase (trap.isActive = spikesActive), also for a
\* trap created while the manager is in its Armed phase.
C31_TrapFollowsManager ==
    \A i \in SpikeTraps(obstaclesManager) :
        LET o == obstaclesManager.obstacles[i]
        IN  /\ o.collisionResponse <=> o.isActive
            /\ o.isActive <=> obstaclesManager.spikesActive

----------------------------------------------------------------------------
(* The order of the steps of a frame *)

\* the place of a step in the order the frame is described to run in
StepRank(step) ==
    CASE step \in {"levelObstacles", "obstacleMachines"} -> 1
      [] step = "physics" -> 2
      [] step = "player" -> 3
      [] step = "collectibles" -> 4
      [] step = "finish" -> 5

\* C32: within one simulated frame the level's obstacles and the obstacle
\* state machines advance first, then the physics step with its
\* body-to-visual synchronization, then the player controller, then the
\* collectible proximity checks, then the finish-condition check.
C32_FrameOrder ==
    /\ \A i, j \in DOMAIN ev.order :
          i < j => StepRank(ev.order[i]) <= StepRank(ev.order[j])
    /\ ev.ranUpdate => {StepRank(ev.order[i]) : i \in DOMAIN ev.order} = 1..5

----------------------------------------------------------------------------
(* The Physics Bridge *)

\* the mesh of entry i has the pose of the body of entry i
InStep(st, i) == st.meshPose[st.meshes[i]] = st.bodyPose[st.physicsBodies[i]]

\* C33: immediately after every PhysicsSystem.update every registered
\* body-visual pair has the visual's position and orientation equal to the
\* body's, and no operation of the Physics Bridge copies a visual's
\* transform into a body: update leaves the bodies where world.step put
\* them, and registering, removing and cleanup leave them where they were.
C33_MeshesFollowBodies ==
    /\ [][PS_update =>
             /\ \A i \in DOMAIN stage'.physicsBodies : InStep(stage', i)
             /\ stage'.bodyPose = ev'.stepped[1]]_vars
    /\ [][(PS_addBodyMeshPair \/ PS_removeBodyMeshPair \/ PS_cleanup)
             => stage'.bodyPose = stage.bodyPose]_vars

\* an update has run with a pair registered whose body world.step turned,
\* while the mesh of a box that is not registered stays behind its body
C33_Witness ==
    /\ ev.stepped # <<>>
    /\ \E i \in DOMAIN stage.physicsBodies :
          stage.meshPose[stage.meshes[i]].quaternion = "turned"
    /\ \E k \in Created \ Registered :
          stage.meshPose[Part(Box(k), "mesh")]
              # stage.bodyPose[Part(Box(k), "body")]

\* C34: removeBodyMeshPair on a body that is not registered (never added
\* or already removed) leaves the registered pairs unchanged and raises no
\* error; after any sequence of addBodyMeshPair, removeBodyMeshPair and
\* cleanup the body list and the mesh list have equal length and entry i of
\* one is the partner of entry i of the other.
C34_PairsInStep ==
    /\ [](/\ Len(stage.physicsBodies) = Len(stage.meshes)
          /\ \A i \in DOMAIN stage.physicsBodies :
                stage.physicsBodies[i].owner = stage.meshes[i].owner)
    /\ [][\A k \in PhysicsBoxes \ Registered :
             (PS_removeBodyMeshPair /\ ev'.removed = {Box(k)})
                 => /\ stage'.physicsBodies = stage.physicsBodies
                    /\ stage'.meshes = stage.meshes
                    /\ ~ev'.threw]_vars

\* a box that was not registered has been removed while as many pairs as
\* can be are registered
C34_Witness ==
    /\ ev.removed # {}
    /\ Len(stage.physicsBodies) = MaxPairs
    /\ Len(stage.meshes) = MaxPairs

----------------------------------------------------------------------------
(* Cosmetic side effects *)

\* the state of play: the collectibles, the score and flags, the ball and
\* the scene
Gameplay(w) == <<w.collectibles, w.game, w.player, w.stage.scene>>

\* C35: a failing cosmetic side effect (a sound that failed to load, an
\* unavailable audio context, a UI or audio notification that raises an
\* error) never prevents or changes a gameplay transition: an update of the
\* collectibles reaches the state it reaches when all side effects work.
C35_SideEffectsHarmless ==
    [][Notify_update =>
          Gameplay(World)' =
              Gameplay(updateCollectibles(
                  [Fresh EXCEPT !.player.position = player'.position,
                                !.player.meshPosition = player'.meshPosition],
                  HoverHeight))]_vars

----------------------------------------------------------------------------
(* Falling below the death plane *)

\* C36: each fall below the death plane triggers Player.die exactly once: a
\* frame calls die once when the step of that frame has left the ball below
\* y = -10 and not at all otherwise, so the frame after a respawn does not
\* trigger another death unless the ball has fallen below the plane again.
C36_DeathOncePerFall ==
    [][ev'.ranUpdate =>
          ev'.deaths = IF ev'.stepped[1].y < DeathPlaneY THEN 1 ELSE 0]_vars

\* a frame has run without a death after the death of this attempt, with
\* the ball where respawn put it and its mesh there again
C36_Witness ==
    /\ ev.ranUpdate /\ ev.deaths = 0
    /\ game.isGameOver
    /\ player.position = player.spawnPosition
    /\ player.meshPosition = player.spawnPosition

\* C37: Game.isGameOver and Game.isLevelComplete are never both true.
C37_OverXorComplete == ~(game.isGameOver /\ game.isLevelComplete)

----------------------------------------------------------------------------
(* The deferred screens *)

\* C38: the deferred game-over screen and the deferred level-complete
\* screen are shown only if the game is still in that state when the timer
\* fires: after a restartLevel, nextLevel or startGame issued in between no
\* stale screen comes up over the new attempt.
C38_NoStaleScreen ==
    /\ game.screen = <<"gameOver">> => game.isGameOver
    /\ game.screen = <<"levelComplete">> => game.isLevelComplete

\* the scene after the level is loaded once into an empty scene
LoadedOnce(levelIndex) ==
    loadLevel([Fresh EXCEPT !.stage = [NewStage EXCEPT !.environments = <<0>>],
                            !.levelManager = [NewLevelManager EXCEPT
                                                 !.levels = ObstacleLevels],
                            !.collectibles = <<>>,
                            !.hist = <<>>], levelIndex).stage.scene
SkyMeshes(scene) == {n \in scene : n.part = "sky"}
Lights(scene) == {n \in scene : n.part \in {"sunLight", "ambientLight"}}

\* C39: the scene nodes present after loadLevel depend only on the level
\* loaded, not on how many loads came before: after every loadLevel the
\* scene holds as many nodes, as many sky meshes and as many lights as
\* after loading that level once into an empty scene.
C39_SceneOfLevelOnly ==
    ev.loaded # <<>> =>
        LET once == LoadedOnce(ev.loaded[1])
        IN  /\ Cardinality(SkyMeshes(stage.scene)) = Cardinality(SkyMeshes(once))
            /\ Cardinality(Lights(stage.scene)) = Cardinality(Lights(once))
            /\ Cardinality(stage.scene) = Cardinality(once)

====
